---- MODULE Spec2Model ----
(***************************************************************************)
(* A model of yggit: the plan renderer and parser (src/src/parser.rs), the *)
(* notes store and push phase (src/src/core.rs), the review synchronizers  *)
(* (src/src/github/integration.rs, src/src/commands/push.rs) and the       *)
(* orchestrator Push::execute (src/src/commands/push.rs).                  *)
(*                                                                         *)
(* Text is modelled character by character: a string is a sequence of      *)
(* one-character strings, "\n" included.  An Option is a sequence of       *)
(* length at most one: None is <<>>, Some(x) is <<x>>.                      *)
(***************************************************************************)
EXTENDS Integers, Sequences, FiniteSets, TLC

VARIABLES
    pc,             \* where the run stands
    main_branch,    \* git.main_branch()'s name, "main" when it has none
    plan,           \* the blocks the editor's text was typed from
    content,        \* the text read back from the editor
    after_commits,  \* Option<Vec<parser::Commit>>: the parser's result
    output,         \* the rendered plan
    reparsed,       \* the parser's result on the rendered plan
    log,            \* the repository's commits, oldest first (id, title, description)
    notes,          \* the notes table: commit id -> Option<Note>
    heads,          \* local branches: name -> tip
    tracking,       \* remote-tracking refs: <<origin, branch>> -> last fetched tip
    remote,         \* the remotes' refs: <<origin, branch>> -> tip
    listed,         \* push_from_notes: its `commits`, the commits it listed
    idx,            \* the position of the running loop
    calls,          \* the calls made and lines printed so far, in order
    synchronizer,   \* which review synchronizer runs: "integration" or "push"
    before_state,   \* branch -> BranchState read from the notes before the edit
    after_state,    \* branch -> BranchState read from the parsed plan
    available,      \* whether the gh command can be run at all
    fail_op,        \* the gh subcommand that fails in this run, "none" if none
    failing,        \* the branches for which it fails
    fault,          \* how it fails: "spawn" (cannot be run) or "exit" (non-zero)
    prs,            \* the review service: branch -> base of its pull request
    todo,           \* the branches the running loop of the synchronizer has left
    no_pr,          \* Push.no_pr, the --no-pr flag
    edit,           \* what the editor did: "none" yet, "abort", "kept", "plan"
    result          \* what the operation returned: "none" while it runs

textVars == <<plan, content, after_commits, output, reparsed>>

repoVars == <<log, notes, heads, tracking, remote>>

loopVars == <<listed, idx, calls>>

gatewayVars == <<available, fail_op, failing, fault>>

reviewVars == <<synchronizer, before_state, after_state, gatewayVars, prs, todo>>

runVars == <<no_pr, edit, result>>

vars == <<pc, main_branch, textVars, repoVars, loopVars, reviewVars, runVars>>

\* ------------------------------------------------------------------------
\* Options
\* ------------------------------------------------------------------------
None == <<>>

Some(x) == <<x>>

IsSome(o) == Len(o) = 1

IsNone(o) == Len(o) = 0

Unwrap(o) == o[1]

\* Body applied to the value of x, which is computed once.
With(x, Body(_)) == CHOOSE r \in {Body(v) : v \in {x}} : TRUE

\* ------------------------------------------------------------------------
\* Characters and strings
\* ------------------------------------------------------------------------
NL == "\n"

\* char::is_whitespace / regex \s, on the characters the model uses.
Whitespace == {" ", "\t"}

IsSpace(c) == c \in Whitespace

\* The character class [0-9a-fA-F] of commit_header_re.
HexDigits ==
    {"0", "1", "2", "3", "4", "5", "6", "7", "8", "9",
     "a", "b", "c", "d", "e", "f", "A", "B", "C", "D", "E", "F"}

IsHex(c) == c \in HexDigits

\* The {40} of commit_header_re: the length of a printed Oid.
HashLen == 40

Lower(c) ==
    CASE c = "A" -> "a" [] c = "B" -> "b" [] c = "C" -> "c"
      [] c = "D" -> "d" [] c = "E" -> "e" [] c = "F" -> "f"
      [] OTHER -> c

\* Oid::from_str on a string of 40 hex digits: the id, which prints in
\* lower case (Oid's Display).
OidFromStr(s) == [k \in 1..Len(s) |-> Lower(s[k])]

Sub(s, a, b) == IF a > b THEN <<>> ELSE SubSeq(s, a, b)

\* Number of leading whitespace characters of s from position p on.
RECURSIVE SpaceRun(_, _)
SpaceRun(s, p) ==
    IF p <= Len(s) /\ IsSpace(s[p]) THEN 1 + SpaceRun(s, p + 1) ELSE 0

\* Number of trailing whitespace characters of s up to position p.
RECURSIVE SpaceRunBack(_, _)
SpaceRunBack(s, p) ==
    IF p >= 1 /\ IsSpace(s[p]) THEN 1 + SpaceRunBack(s, p - 1) ELSE 0

\* str::trim
Trim(s) ==
    With(SpaceRun(s, 1), LAMBDA a :
        IF a = Len(s) THEN <<>>
        ELSE Sub(s, a + 1, Len(s) - SpaceRunBack(s, Len(s))))

\* str::lines: split at "\n"; a final line ending adds no empty line.
\* LinesAt(s, nls): the lines of s, nls being the positions of its "\n".
LinesAt(s, nls) ==
    LET \* position of the j-th "\n"; 0 for j = 0
        nl(j)  == IF j = 0 THEN 0
                  ELSE CHOOSE p \in nls : Cardinality({q \in nls : q <= p}) = j
        ended  == Len(s) = 0 \/ s[Len(s)] = NL
    IN  [j \in 1..(Cardinality(nls) + (IF ended THEN 0 ELSE 1)) |->
            Sub(s, nl(j - 1) + 1,
                IF j > Cardinality(nls) THEN Len(s) ELSE nl(j) - 1)]

Lines(s) == With({p \in 1..Len(s) : s[p] = NL}, LAMBDA nls : LinesAt(s, nls))

StartsWith(s, pre) == Len(s) >= Len(pre) /\ SubSeq(s, 1, Len(pre)) = pre

\* ------------------------------------------------------------------------
\* commit_header_re = ^(?P<hash>[0-9a-fA-F]{40})\s+(?P<title>.+)$
\* ------------------------------------------------------------------------
HeaderMatches(line) ==
    /\ Len(line) >= HashLen + 2
    /\ \A k \in 1..HashLen : IsHex(line[k])
    /\ IsSpace(line[HashLen + 1])
    \* \s+ is greedy but gives back so that .+ has one character left
    /\ \E k \in (HashLen + 2)..Len(line) : line[k] # NL

HeaderCaps(line) ==
    \* greedy \s+, leaving at least one character to the title
    With(SpaceRun(line, HashLen + 1), LAMBDA run :
        [hash  |-> SubSeq(line, 1, HashLen),
         title |-> SubSeq(line, HashLen + 1
                                + (IF HashLen + run = Len(line) THEN run - 1 ELSE run),
                          Len(line))])

\* ------------------------------------------------------------------------
\* target_re =
\*   ^->\s*(?:(?P<origin>[^:]+):)?(?P<branch>[^=]+?)(?:\s*=>\s*(?P<parent>.+))?$
\* matched with the regex crate's leftmost-first preference: \s* greedy, the
\* origin group preferred present, branch as short as possible, the parent
\* group preferred present.
\* ------------------------------------------------------------------------
\* (?:\s*=>\s*(?P<parent>.+))?$ at position p: <<ok, parent capture option>>
TailAt(line, p) ==
    With(p + SpaceRun(line, p), LAMBDA r :
        IF /\ r + 2 <= Len(line)
           /\ line[r] = "=" /\ line[r + 1] = ">"
        THEN \* greedy \s* after "=>" gives one character back when it ate
             \* them all
             With(r + 2 + SpaceRun(line, r + 2), LAMBDA ar :
                 <<TRUE, Some(SubSeq(line, IF ar > Len(line) THEN Len(line) ELSE ar,
                                     Len(line)))>>)
        ELSE IF p = Len(line) + 1 THEN <<TRUE, None>>
        ELSE <<FALSE, None>>)

\* The ends e of a branch capture line[s..e] after which the tail matches.
BranchEnds(line, s) ==
    {e \in s..Len(line) :
        /\ \A k \in s..e : line[k] # "="
        /\ TailAt(line, e + 1)[1]}

\* (?P<branch>[^=]+?)(...)?$ at position s, lazily: the shortest branch.
BranchAt(line, s) ==
    With(BranchEnds(line, s), LAMBDA ends :
        IF ends = {} THEN <<FALSE, <<>>, None>>
        ELSE With(CHOOSE x \in ends : \A y \in ends : x <= y, LAMBDA e :
                 <<TRUE, SubSeq(line, s, e), TailAt(line, e + 1)[2]>>))

\* Position of the first ":" at or after p, 0 when there is none.
RECURSIVE FirstColon(_, _)
FirstColon(line, p) ==
    IF p > Len(line) THEN 0
    ELSE IF line[p] = ":" THEN p
    ELSE FirstColon(line, p + 1)

\* (?:(?P<origin>[^:]+):)?(?P<branch>...)... at position p: the origin group
\* is tried first, then the match without it.
GroupsAt(line, p) ==
    With(FirstColon(line, p), LAMBDA q :
      With(IF q > p THEN BranchAt(line, q + 1) ELSE <<FALSE, <<>>, None>>,
           LAMBDA withO :
        IF withO[1]
        THEN [ok |-> TRUE, origin |-> Some(SubSeq(line, p, q - 1)),
              branch |-> withO[2], parent |-> withO[3]]
        ELSE With(BranchAt(line, p), LAMBDA noO :
            IF noO[1]
            THEN [ok |-> TRUE, origin |-> None, branch |-> noO[2], parent |-> noO[3]]
            ELSE [ok |-> FALSE, origin |-> None, branch |-> <<>>, parent |-> None])))

\* target_re.captures(line): \s* takes as much whitespace as still lets the
\* rest match.
TargetCaps(line) ==
    IF ~StartsWith(line, <<"-", ">">>)
    THEN [ok |-> FALSE, origin |-> None, branch |-> <<>>, parent |-> None]
    ELSE With({w \in 0..SpaceRun(line, 3) : GroupsAt(line, 3 + w).ok}, LAMBDA good :
            IF good = {}
            THEN [ok |-> FALSE, origin |-> None, branch |-> <<>>, parent |-> None]
            ELSE GroupsAt(line, 3 + (CHOOSE w \in good : \A v \in good : v <= w)))

\* ------------------------------------------------------------------------
\* parser.rs: the plan parser
\* ------------------------------------------------------------------------
\* Target { origin, branch, parent_branch }
Target(origin, branch, parent_branch) ==
    [origin |-> origin, branch |-> branch, parent_branch |-> parent_branch]

\* Commit { hash, title, target }
Commit(hash, title, target) == [hash |-> hash, title |-> title, target |-> target]

\* parser.rs 92-97 without the inference of parser.rs 95-97: the mutant of
\* ParentOf.
ParentNotInferred(parent_cap, last_branch, main_branch_name) ==
    IF IsSome(parent_cap) THEN Some(Trim(Unwrap(parent_cap))) ELSE None

\* parser.rs 92-97: the parent of a target, explicit or inferred.
ParentAlwaysMain(parent_cap, last_branch, main_branch_name) ==
    IF IsSome(parent_cap) THEN Some(Trim(Unwrap(parent_cap)))
    ELSE Some(main_branch_name)

ParentOf(parent_cap, last_branch, main_branch_name) ==
    IF IsSome(parent_cap) THEN Some(Trim(Unwrap(parent_cap)))
    ELSE IF IsSome(last_branch) THEN last_branch
    ELSE Some(main_branch_name)

\* parser.rs 85-105 with the look-ahead going past one line that does not
\* start with "->": the mutant of TargetAfter.
TargetAfterSkipping(lines, i, last_branch, main_branch_name) ==
    With(IF i + 1 <= Len(lines) /\ StartsWith(lines[i + 1], <<"-", ">">>) THEN i + 1
         ELSE i + 2, LAMBDA n :
        IF n <= Len(lines) /\ StartsWith(lines[n], <<"-", ">">>)
        THEN With(TargetCaps(lines[n]), LAMBDA caps :
                IF caps.ok
                THEN <<TRUE, Target(caps.origin, Trim(caps.branch),
                                    ParentOf(caps.parent, last_branch, main_branch_name))>>
                ELSE <<FALSE, Target(None, <<>>, None)>>)
        ELSE <<FALSE, Target(None, <<>>, None)>>)

\* parser.rs 85-105: the target of the header at lines[i], read from the line
\* right after it.  <<found, target>>
TargetAfter(lines, i, last_branch, main_branch_name) ==
    IF i + 1 <= Len(lines) /\ StartsWith(lines[i + 1], <<"-", ">">>)
    THEN With(TargetCaps(lines[i + 1]), LAMBDA caps :
            IF caps.ok
            THEN <<TRUE, Target(caps.origin, Trim(caps.branch),
                                ParentOf(caps.parent, last_branch, main_branch_name))>>
            ELSE <<FALSE, Target(None, <<>>, None)>>)
    ELSE <<FALSE, Target(None, <<>>, None)>>

\* parser.rs 74-111: the loop over the trimmed lines.
RECURSIVE ParseLoop(_, _, _, _, _)
ParseLoop(lines, i, last_branch, commits, main_branch_name) ==
    IF i > Len(lines) THEN commits
    ELSE IF lines[i] = <<>> \/ StartsWith(lines[i], <<"#">>) \/ ~HeaderMatches(lines[i])
    THEN ParseLoop(lines, i + 1, last_branch, commits, main_branch_name)
    ELSE With(HeaderCaps(lines[i]), LAMBDA caps :
           With(TargetAfter(lines, i, last_branch, main_branch_name), LAMBDA t :
             ParseLoop(lines,
                       IF t[1] THEN i + 2 ELSE i + 1,
                       IF t[1] THEN Some(t[2].branch) ELSE last_branch,
                       Append(commits,
                              Commit(OidFromStr(caps.hash), caps.title,
                                     IF t[1] THEN Some(t[2]) ELSE None)),
                       main_branch_name)))

\* parser.rs 71: input.lines().map(|line| line.trim())
TrimmedLines(input) == With(Lines(input), LAMBDA ls : [k \in 1..Len(ls) |-> Trim(ls[k])])

\* parser.rs 112-116: None when no commit was read, Some(commits) otherwise.
ParseResultNeverNone(commits) == Some(commits)

ParseResult(commits) == IF commits = <<>> THEN None ELSE Some(commits)

\* parser.rs 66-117
instruction_from_string_with_main_branch(input, main_branch_name) ==
    With(TrimmedLines(input),
         LAMBDA lines : ParseResult(ParseLoop(lines, 1, None, <<>>, main_branch_name)))

\* ------------------------------------------------------------------------
\* parser.rs: the plan renderer
\* ------------------------------------------------------------------------
\* core.rs 24-34
Push(origin, branch, parent_branch) ==
    [origin |-> origin, branch |-> branch, parent_branch |-> parent_branch]

Note(push) == [push |-> push]

\* git::EnhancedCommit<Note>
EnhancedCommit(id, title, description, note) ==
    [id |-> id, title |-> title, description |-> description, note |-> note]

\* parser.rs 15-37: the target line of a push, with its "\n".
TargetLine(push) ==
    <<"-", ">", " ">>
    \o (IF IsSome(push.origin) THEN Unwrap(push.origin) \o <<":">> ELSE <<>>)
    \o push.branch
    \o (IF IsSome(push.parent_branch)
        THEN <<" ", "=", ">", " ">> \o Unwrap(push.parent_branch) ELSE <<>>)
    \o <<NL>>

\* parser.rs 13-42: what one commit adds to the output.
CommitText(commit) ==
    commit.id \o <<" ">> \o commit.title \o <<NL>>
    \o (IF IsSome(commit.note) /\ IsSome(Unwrap(commit.note).push)
        THEN TargetLine(Unwrap(Unwrap(commit.note).push)) \o <<NL>>
        ELSE <<>>)

\* parser.rs 10-45
RECURSIVE commits_to_string(_)
commits_to_string(commits) ==
    IF commits = <<>> THEN <<>>
    ELSE CommitText(Head(commits)) \o commits_to_string(Tail(commits))

\* ------------------------------------------------------------------------
\* Names and texts the runs are drawn from
\* ------------------------------------------------------------------------
S_main == <<"m", "a", "i", "n">>

S_a == <<"a">>

S_b == <<"b">>

S_p == <<"p">>

S_o == <<"o">>

Digits == <<"a", "b", "c", "d", "e", "f">>

UpperDigits == <<"A", "B", "C", "D", "E", "F">>

\* The id of the k-th commit of the log, as it prints.
OidOf(k) == [j \in 1..HashLen |-> Digits[k]]

TitleOf(k) == <<"t", Digits[k]>>

\* Most commits a log holds.
MaxCommits == 3

\* Most commits of the log in the runs that save and re-read notes.
MaxSaved == 2

AllOids == {OidOf(k) : k \in 1..Len(Digits)}

\* How the user may have left the header line of the k-th commit.
HeaderKinds == {"ok", "upper", "short", "notitle", "indent", "arrow"}

HeaderLine(kind, k) ==
    CASE kind = "ok"      -> OidOf(k) \o <<" ">> \o TitleOf(k)
      [] kind = "upper"   -> [j \in 1..HashLen |-> UpperDigits[k]] \o <<" ">> \o TitleOf(k)
      [] kind = "short"   -> SubSeq(OidOf(k), 1, HashLen - 1) \o <<" ">> \o TitleOf(k)
      [] kind = "notitle" -> OidOf(k) \o <<" ">>
      [] kind = "indent"  -> <<" ", " ">> \o OidOf(k) \o <<" ", " ">> \o TitleOf(k) \o <<" ">>
      [] kind = "arrow"   -> <<"-", ">", " ", "b">>

\* A header of one of these kinds is a valid commit header: 40 hex digits,
\* whitespace, a non-empty title.
ValidHeaderKinds == {"ok", "upper", "indent"}

\* What the user may have left under a header: the lines, and (explicit) the
\* parent written after "=>" on the first of them, if any.
Follow(lines, explicit) == [lines |-> lines, explicit |-> explicit]

FollowPool ==
    { Follow(<<>>, None),
      Follow(<< <<"-", ">", " ", "a">> >>, None),
      Follow(<< <<"-", ">", " ", "b">> >>, None),
      Follow(<< <<"-", ">", " ", "a", " ", "=", ">", " ", "p">> >>, Some(S_p)),
      Follow(<< <<"-", ">", " ", "b", " ", "=", ">", " ", "a">> >>, Some(S_a)),
      Follow(<< <<"-", ">", " ", "o", ":", "a">> >>, None),
      Follow(<< <<" ", "-", ">", "o", ":", "b", " ", " ", "=", ">", "p", " ">> >>, Some(S_p)),
      Follow(<< <<"-", ">">> >>, None),
      Follow(<< <<"-", ">", " ", " ", "=", ">", " ", "p">> >>, Some(S_p)),
      Follow(<< <<"-", ">", " ", "a", "=", "b">> >>, None),
      Follow(<< <<>>, <<"-", ">", " ", "b">> >>, None),
      Follow(<< <<"#", " ", "c">>, <<"-", ">", " ", "a">> >>, None),
      Follow(<< <<"-", ">", " ", "a">>, <<"-", ">", " ", "b">> >>, None),
      Follow(<< <<"x">> >>, None) }

Block(hdr, follow) == [hdr |-> hdr, follow |-> follow]

BlockPool ==
    {Block("ok", f) : f \in FollowPool}
    \cup {Block(h, Follow(<< <<"-", ">", " ", "a">> >>, None)) :
            h \in HeaderKinds \ {"ok"}}

RECURSIVE JoinLines(_)
JoinLines(ls) == IF ls = <<>> THEN <<>> ELSE Head(ls) \o <<NL>> \o JoinLines(Tail(ls))

\* The text of a plan: block k is the header of commit k and what follows it.
RECURSIVE PlanTextFrom(_, _)
PlanTextFrom(blocks, k) ==
    IF k > Len(blocks) THEN <<>>
    ELSE HeaderLine(blocks[k].hdr, k) \o <<NL>>
         \o JoinLines(blocks[k].follow.lines) \o PlanTextFrom(blocks, k + 1)

PlanText(blocks) == PlanTextFrom(blocks, 1)

PlansUpTo(n) == UNION {[1..m -> BlockPool] : m \in 0..n}

\* ------------------------------------------------------------------------
\* The repository (git.rs)
\* ------------------------------------------------------------------------
\* The log of n commits: id, title, description.
LogOf(n) == [k \in 1..n |-> [id |-> OidOf(k), title |-> TitleOf(k), description |-> None]]

NoNotes == [id \in AllOids |-> None]

\* Git::list_commits: the log, oldest first, each commit with its note.
list_commits ==
    [k \in 1..Len(log) |->
        EnhancedCommit(log[k].id, log[k].title, log[k].description, notes[log[k].id])]

\* Git::set_note / Git::delete_note on a notes table.
set_note(table, hash, note) == [table EXCEPT ![hash] = Some(note)]

delete_note(table, hash) == [table EXCEPT ![hash] = None]

\* core.rs 64-83 without the delete of core.rs 71-72: the mutant of SaveOne.
SaveOneKeeps(table, commit) ==
    IF IsNone(commit.target) THEN table
    ELSE set_note(table, commit.hash,
                  Note(Some(Push(Unwrap(commit.target).origin,
                                 Unwrap(commit.target).branch,
                                 Unwrap(commit.target).parent_branch))))

\* core.rs 64-83: save_note, on the notes table.
SaveOne(table, commit) ==
    IF IsNone(commit.target) THEN delete_note(table, commit.hash)
    ELSE LET t == Unwrap(commit.target)
         IN  set_note(table, commit.hash,
                      Note(Some(Push(t.origin, t.branch, t.parent_branch))))

\* core.rs 64-83 with the notes of all other commits dropped first: only the
\* commits of the plan keep a note.  The mutant of save_note.
RECURSIVE save_note_from(_, _)
save_note_from(table, commits) ==
    IF commits = <<>> THEN table
    ELSE save_note_from(SaveOne(table, Head(commits)), Tail(commits))

save_note_replacing(table, commits) ==
    save_note_from([h \in DOMAIN table |-> None], commits)

RECURSIVE save_note(_, _)
save_note(table, commits) ==
    IF commits = <<>> THEN table
    ELSE save_note(SaveOne(table, Head(commits)), Tail(commits))

\* core.rs 65-82: the calls save_note makes, one for each commit, in the
\* order of the commits: delete_note(hash) or set_note(hash, note).
save_note_calls(commits) ==
    [k \in 1..Len(commits) |->
        IF IsNone(commits[k].target)
        THEN [op |-> "delete_note", branch |-> None, a |-> commits[k].hash, b |-> None]
        ELSE [op |-> "set_note", branch |-> Unwrap(commits[k].target).branch,
              a |-> commits[k].hash,
              b |-> Note(Some(Push(Unwrap(commits[k].target).origin,
                                   Unwrap(commits[k].target).branch,
                                   Unwrap(commits[k].target).parent_branch)))]]

\* The id the main branch stands at, and ids of commits outside the log.
BaseOid == OidOf(4)

OldOid == OidOf(5)

OtherOid == OidOf(6)

S_origin == <<"o", "r", "i", "g", "i", "n">>

\* No branch but the main branch, nothing known of any remote.
NoRefs ==
    /\ heads = (S_main :> BaseOid)
    /\ tracking = <<>>
    /\ remote = <<>>

NoLoop ==
    /\ listed = <<>>
    /\ idx = 0
    /\ calls = <<>>

\* The review service is out of reach and holds nothing.
NoGateway ==
    /\ available = FALSE
    /\ fail_op = "none"
    /\ failing = {}
    /\ fault = "exit"
    /\ prs = <<>>

\* No synchronizer has run, and none will.
NoReview ==
    /\ synchronizer = "push"
    /\ before_state = <<>>
    /\ after_state = <<>>
    /\ NoGateway
    /\ todo = {}
    /\ no_pr = TRUE
    /\ edit = "none"
    /\ result = "none"

\* ------------------------------------------------------------------------
\* commands/push.rs: the branch states of a plan
\* ------------------------------------------------------------------------
HasPush(commit) == IsSome(commit.note) /\ IsSome(Unwrap(commit.note).push)

PushOf(commit) == Unwrap(Unwrap(commit.note).push)

\* push.rs 85-90: the BranchState of commands/push.rs has no description.
push_BranchState(branch, target_branch, origin, commit_title) ==
    [branch |-> branch, target_branch |-> target_branch, origin |-> origin,
     commit_title |-> commit_title]

\* push.rs 93-118 with "main" as the target of every branch, the declared
\* parent left aside: the mutant of push_extract_branch_state.
RECURSIVE push_extract_branch_state_main(_, _)
push_extract_branch_state_main(commits, n) ==
    IF n = 0 THEN <<>>
    ELSE IF ~HasPush(commits[n]) THEN push_extract_branch_state_main(commits, n - 1)
    ELSE (PushOf(commits[n]).branch :>
             push_BranchState(PushOf(commits[n]).branch,
                              S_main,
                              PushOf(commits[n]).origin,
                              Some(commits[n].title)))
         @@ push_extract_branch_state_main(commits, n - 1)

\* push.rs 93-118 on the first n commits: a later commit of a branch
\* replaces the entry of an earlier one.
RECURSIVE push_extract_branch_state(_, _)
push_extract_branch_state(commits, n) ==
    IF n = 0 THEN <<>>
    ELSE IF ~HasPush(commits[n]) THEN push_extract_branch_state(commits, n - 1)
    ELSE (PushOf(commits[n]).branch :>
             push_BranchState(PushOf(commits[n]).branch,
                              IF IsSome(PushOf(commits[n]).parent_branch)
                              THEN Unwrap(PushOf(commits[n]).parent_branch) ELSE S_main,
                              PushOf(commits[n]).origin,
                              Some(commits[n].title)))
         @@ push_extract_branch_state(commits, n - 1)

\* push.rs 121-144 with the entry of a branch kept once it is there: the
\* first commit of a branch wins.  The mutant of
\* push_extract_branch_state_from_parsed.
RECURSIVE push_extract_branch_state_from_parsed_first(_, _)
push_extract_branch_state_from_parsed_first(commits, n) ==
    IF n = 0 THEN <<>>
    ELSE IF IsNone(commits[n].target)
    THEN push_extract_branch_state_from_parsed_first(commits, n - 1)
    ELSE push_extract_branch_state_from_parsed_first(commits, n - 1)
         @@ (Unwrap(commits[n].target).branch :>
                push_BranchState(Unwrap(commits[n].target).branch,
                                 IF IsSome(Unwrap(commits[n].target).parent_branch)
                                 THEN Unwrap(Unwrap(commits[n].target).parent_branch)
                                 ELSE S_main,
                                 Unwrap(commits[n].target).origin,
                                 Some(commits[n].title)))

\* push.rs 121-144 on the first n parsed commits.
RECURSIVE push_extract_branch_state_from_parsed(_, _)
push_extract_branch_state_from_parsed(commits, n) ==
    IF n = 0 THEN <<>>
    ELSE IF IsNone(commits[n].target)
    THEN push_extract_branch_state_from_parsed(commits, n - 1)
    ELSE (Unwrap(commits[n].target).branch :>
             push_BranchState(Unwrap(commits[n].target).branch,
                              IF IsSome(Unwrap(commits[n].target).parent_branch)
                              THEN Unwrap(Unwrap(commits[n].target).parent_branch)
                              ELSE S_main,
                              Unwrap(commits[n].target).origin,
                              Some(commits[n].title)))
         @@ push_extract_branch_state_from_parsed(commits, n - 1)

\* push.rs 61-63: no commit read ends Push::execute with a failure.
ParseFailed == [pc |-> "failed", result |-> "Err"]

\* ------------------------------------------------------------------------
\* The parser on its own: a text is parsed
\* ------------------------------------------------------------------------
InitParse ==
    /\ pc = "parse"
    /\ main_branch = S_main
    /\ plan \in PlansUpTo(MaxCommits)
    /\ content = PlanText(plan)
    /\ after_commits = None
    /\ log = LogOf(Len(plan))
    /\ notes = NoNotes
    /\ output = <<>>
    /\ reparsed = None
    /\ NoRefs
    /\ NoLoop
    /\ NoReview

\* push.rs 57-63: the edited text is parsed; no commit read is a failure.
ParsePlan ==
    /\ pc = "parse"
    /\ after_commits' = instruction_from_string_with_main_branch(content, main_branch)
    /\ IF IsNone(after_commits')
       THEN /\ pc' = ParseFailed.pc
            /\ result' = ParseFailed.result
            /\ UNCHANGED after_state
       ELSE /\ pc' = "parsed"
            /\ after_state' = push_extract_branch_state_from_parsed(
                                  Unwrap(after_commits'), Len(Unwrap(after_commits')))
            /\ UNCHANGED result
    /\ UNCHANGED <<main_branch, plan, content, output, reparsed, repoVars, loopVars,
                   synchronizer, before_state, gatewayVars, prs, todo, no_pr, edit>>

NextParse == ParsePlan

SpecParse == InitParse /\ [][NextParse]_vars

\* ------------------------------------------------------------------------
\* Saving and reading back: parse, save_note, list_commits, render, parse
\* ------------------------------------------------------------------------
\* push.rs 68: save_note(&git, after_commits)
SaveNotes ==
    /\ pc = "parsed"
    /\ notes' = save_note(notes, Unwrap(after_commits))
    /\ calls' = calls \o save_note_calls(Unwrap(after_commits))
    /\ pc' = "saved"
    /\ UNCHANGED <<main_branch, textVars, log, heads, tracking, remote, listed, idx,
                 reviewVars, runVars>>

\* push.rs 39-42: the plan is rendered from list_commits.
RenderPlan ==
    /\ pc = "saved"
    /\ output' = commits_to_string(list_commits)
    /\ pc' = "rendered"
    /\ UNCHANGED <<main_branch, plan, content, after_commits, reparsed, repoVars, loopVars,
                 reviewVars, runVars>>

\* The rendered plan is parsed with the same main-branch name.
Reparse ==
    /\ pc = "rendered"
    /\ reparsed' = instruction_from_string_with_main_branch(output, main_branch)
    /\ pc' = "reparsed"
    /\ UNCHANGED <<main_branch, plan, content, after_commits, output, repoVars, loopVars,
                 reviewVars, runVars>>

InitSave ==
    /\ pc = "parse"
    /\ main_branch = S_main
    /\ plan \in PlansUpTo(MaxSaved)
    /\ content = PlanText(plan)
    /\ after_commits = None
    /\ log = LogOf(Len(plan))
    /\ notes = NoNotes
    /\ output = <<>>
    /\ reparsed = None
    /\ NoRefs
    /\ NoLoop
    /\ NoReview

NextSave == ParsePlan \/ SaveNotes \/ RenderPlan \/ Reparse

SpecSave == InitSave /\ [][NextSave]_vars

\* The notes a commit may carry when the plan is rendered: none, an empty
\* note, or a push whose names are non-empty, trimmed, without ":" and
\* without "=>".
S_aeqb == <<"a", "=", "b">>

PushPool ==
    {Push(o, b, pa) : o \in {None, Some(S_o)}, b \in {S_a, S_b, S_aeqb},
                      pa \in {None, Some(S_a), Some(S_p)}}

NotePool == {None, Some(Note(None))} \cup {Some(Note(Some(pu))) : pu \in PushPool}

\* The notes table in which commit k of the log carries f[k].
NotesOf(f) ==
    [id \in AllOids |->
        IF \E k \in DOMAIN f : id = OidOf(k)
        THEN f[CHOOSE k \in DOMAIN f : id = OidOf(k)] ELSE None]

InitRender ==
    /\ pc = "saved"
    /\ main_branch = S_main
    /\ plan = <<>>
    /\ content = <<>>
    /\ after_commits = None
    /\ \E n \in 1..MaxSaved :
          /\ log = LogOf(n)
          /\ \E f \in [1..n -> NotePool] : notes = NotesOf(f)
    /\ output = <<>>
    /\ reparsed = None
    /\ NoRefs
    /\ NoLoop
    /\ NoReview

NextRender == RenderPlan \/ Reparse

SpecRender == InitRender /\ [][NextRender]_vars

\* ------------------------------------------------------------------------
\* core.rs: push_from_notes
\* ------------------------------------------------------------------------
\* A map lookup that may miss: HashMap::get, Git::head_of and the like.
Lookup(m, k) == IF k \in DOMAIN m THEN Some(m[k]) ELSE None

\* One call made or line printed: the operation, the branch, two arguments.
Call(op, branch, a, b) == [op |-> op, branch |-> branch, a |-> a, b |-> b]

\* Git::head_of(branch)
head_of(branch) == Lookup(heads, branch)

\* Git::find_local_remote_head(origin, branch)
find_local_remote_head(origin, branch) == Lookup(tracking, <<origin, branch>>)

\* Git::find_remote_head(origin, branch)
find_remote_head(origin, branch) == Lookup(remote, <<origin, branch>>)

\* git.config.yggit.default_upstream
default_upstream == S_origin

\* Git::set_branch_to_commit_with_parent succeeds when the parent, if one is
\* given, resolves to a branch.
SetBranchSucceeds(branch, oid, parent_branch) ==
    IsNone(parent_branch) \/ Unwrap(parent_branch) \in DOMAIN heads

\* core.rs 89-90: push_from_notes lists the commits.
ListCommits ==
    /\ pc = "saved"
    /\ listed' = list_commits
    /\ idx' = 1
    /\ pc' = IF Len(list_commits) = 0 THEN "pushed" ELSE "dag"
    /\ UNCHANGED <<main_branch, textVars, repoVars, calls,
                 reviewVars, runVars>>

\* core.rs 94-161 as one loop that sets and pushes the branch of a commit
\* before it turns to the next commit: the mutant of LoopNext.
LoopNextMerged(here, after) ==
    IF here = "dag" THEN [pc |-> "push", idx |-> idx]
    ELSE IF idx = Len(listed) THEN [pc |-> "pushed", idx |-> 1]
    ELSE [pc |-> "dag", idx |-> idx + 1]

\* Where a loop over the listed commits stands after the commit at idx.
LoopNext(here, after) ==
    IF idx = Len(listed) THEN [pc |-> after, idx |-> 1]
    ELSE [pc |-> here, idx |-> idx + 1]

\* core.rs 94-124 with a return in the Err arm of core.rs 117-122: the loop
\* ends at the first branch that cannot be set.  The mutant of DagStep.
DagStepStops ==
    /\ pc = "dag"
    /\ idx <= Len(listed)
    /\ IF ~HasPush(listed[idx])
       THEN /\ UNCHANGED <<heads, calls>>
            /\ pc' = LoopNext("dag", "push").pc
            /\ idx' = LoopNext("dag", "push").idx
       ELSE LET pu == PushOf(listed[idx])
                ok == SetBranchSucceeds(pu.branch, listed[idx].id, pu.parent_branch)
            IN  /\ heads' = IF ok THEN (pu.branch :> listed[idx].id) @@ heads ELSE heads
                /\ calls' = Append(calls,
                      Call("set_branch", pu.branch, listed[idx].id,
                           <<pu.parent_branch, ok>>))
                /\ pc' = IF ok THEN LoopNext("dag", "push").pc ELSE "push"
                /\ idx' = IF ok THEN LoopNext("dag", "push").idx ELSE 1
    /\ UNCHANGED <<main_branch, textVars, log, notes, tracking, remote, listed,
                 reviewVars, runVars>>

\* core.rs 94-124: one turn of the loop that sets the branches.
DagStep ==
    /\ pc = "dag"
    /\ idx <= Len(listed)
    /\ LET commit == listed[idx]
       IN  IF ~HasPush(commit)
           THEN UNCHANGED <<heads, calls>>
           ELSE LET pu == PushOf(commit)
                    ok == SetBranchSucceeds(pu.branch, commit.id, pu.parent_branch)
                IN  /\ heads' = IF ok THEN (pu.branch :> commit.id) @@ heads ELSE heads
                    /\ calls' = Append(calls,
                          Call("set_branch", pu.branch, commit.id,
                               <<pu.parent_branch, ok>>))
    /\ pc' = LoopNext("dag", "push").pc
    /\ idx' = LoopNext("dag", "push").idx
    /\ UNCHANGED <<main_branch, textVars, log, notes, tracking, remote, listed,
                 reviewVars, runVars>>

\* core.rs 148-159 with the up-to-date test left out: the mutant of
\* PushDecision.
PushDecisionNoSkip(local_commit, local_remote_commit, remote_commit) ==
    IF local_remote_commit # remote_commit THEN "refuse" ELSE "push"

\* core.rs 148-159: refuse, skip or push.
PushDecision(local_commit, local_remote_commit, remote_commit) ==
    IF local_remote_commit # remote_commit THEN "refuse"
    ELSE IF local_commit = remote_commit THEN "skip"
    ELSE "push"

\* core.rs 148-151 with continue for return: the mutant of AfterRefusal.
AfterRefusalContinue == LoopNext("push", "pushed")

\* core.rs 148-151: the refusal returns from push_from_notes.
AfterRefusal == [pc |-> "pushed", idx |-> idx]

\* core.rs 127-161: one turn of the loop that pushes.
PushStep ==
    /\ pc = "push"
    /\ idx <= Len(listed)
    /\ LET commit == listed[idx]
       IN  IF ~HasPush(commit)
           THEN /\ UNCHANGED <<tracking, remote, calls>>
                /\ pc' = LoopNext("push", "pushed").pc
                /\ idx' = LoopNext("push", "pushed").idx
           ELSE LET pu == PushOf(commit)
                    origin == IF IsSome(pu.origin) THEN Unwrap(pu.origin)
                              ELSE default_upstream
                    local_remote_commit == find_local_remote_head(origin, pu.branch)
                    remote_commit == find_remote_head(origin, pu.branch)
                    local_commit == head_of(pu.branch)
                    d == PushDecision(local_commit, local_remote_commit, remote_commit)
                IN  CASE d = "refuse" ->
                           /\ calls' = Append(calls, Call("cannot_push", pu.branch, origin, None))
                           /\ pc' = AfterRefusal.pc
                           /\ idx' = AfterRefusal.idx
                           /\ UNCHANGED <<tracking, remote>>
                      [] d = "skip" ->
                           /\ calls' = Append(calls, Call("up_to_date", pu.branch, origin, None))
                           /\ pc' = LoopNext("push", "pushed").pc
                           /\ idx' = LoopNext("push", "pushed").idx
                           /\ UNCHANGED <<tracking, remote>>
                      [] d = "push" ->
                           \* Git::push_force: the remote branch and its
                           \* tracking ref take the local tip
                           /\ calls' = Append(calls,
                                 Call("push_force", pu.branch, origin, local_commit))
                           /\ IF IsSome(local_commit)
                              THEN /\ remote' = (<<origin, pu.branch>> :> Unwrap(local_commit)) @@ remote
                                   /\ tracking' = (<<origin, pu.branch>> :> Unwrap(local_commit)) @@ tracking
                              ELSE UNCHANGED <<tracking, remote>>
                           /\ pc' = LoopNext("push", "pushed").pc
                           /\ idx' = LoopNext("push", "pushed").idx
    /\ UNCHANGED <<main_branch, textVars, log, notes, heads, listed,
                 reviewVars, runVars>>

\* The notes a log may carry when the push phase starts.
PhaseNotePool ==
    { None,
      Some(Note(Some(Push(None, S_a, Some(S_main))))),
      Some(Note(Some(Push(None, S_b, Some(S_a))))),
      Some(Note(Some(Push(Some(S_o), S_a, Some(S_main))))),
      Some(Note(Some(Push(None, S_b, Some(S_p))))),
      Some(Note(Some(Push(None, S_a, None)))) }

\* What is known of a commit's branch on its remote, before the run: not
\* there; there and unchanged; moved by someone else; already at the commit;
\* created by someone else.
RemoteCases == {"absent", "same", "moved", "uptodate", "appeared"}

RemoteKey(pu) ==
    <<IF IsSome(pu.origin) THEN Unwrap(pu.origin) ELSE default_upstream, pu.branch>>

\* The remote-tracking refs of a log with notes f and cases rc.
RECURSIVE TrackingOf(_, _, _)
TrackingOf(f, rc, k) ==
    IF k = 0 THEN <<>>
    ELSE IF IsNone(f[k]) \/ rc[k] \in {"absent", "appeared"}
    THEN TrackingOf(f, rc, k - 1)
    ELSE (RemoteKey(Unwrap(Unwrap(f[k]).push)) :>
             (IF rc[k] = "uptodate" THEN OidOf(k) ELSE OldOid))
         @@ TrackingOf(f, rc, k - 1)

\* The remotes' refs of a log with notes f and cases rc.
RECURSIVE RemoteOf(_, _, _)
RemoteOf(f, rc, k) ==
    IF k = 0 THEN <<>>
    ELSE IF IsNone(f[k]) \/ rc[k] = "absent"
    THEN RemoteOf(f, rc, k - 1)
    ELSE (RemoteKey(Unwrap(Unwrap(f[k]).push)) :>
             (CASE rc[k] = "uptodate" -> OidOf(k)
                [] rc[k] = "moved" -> OtherOid
                [] OTHER -> OldOid))
         @@ RemoteOf(f, rc, k - 1)

\* Most commits of the log in the runs of the push phase alone.
MaxPushed == 2

InitPush ==
    /\ pc = "saved"
    /\ main_branch = S_main
    /\ plan = <<>>
    /\ content = <<>>
    /\ after_commits = None
    /\ output = <<>>
    /\ reparsed = None
    /\ \E n \in 1..MaxPushed :
          /\ log = LogOf(n)
          /\ \E f \in [1..n -> PhaseNotePool], rc \in [1..n -> RemoteCases] :
                /\ notes = NotesOf(f)
                /\ tracking = TrackingOf(f, rc, n)
                /\ remote = RemoteOf(f, rc, n)
    /\ heads = (S_main :> BaseOid)
    /\ NoLoop
    /\ NoReview

NextPush == ListCommits \/ DagStep \/ PushStep

SpecPush == InitPush /\ [][NextPush]_vars

\* ------------------------------------------------------------------------
\* The review service behind the gh command
\* ------------------------------------------------------------------------
\* How one run of a gh subcommand ("create", "edit", "list") for a branch
\* ends: "spawn" when the command cannot be run, "exit" when it exits
\* non-zero for a reason of its own, else what the service answers.
GhRun(op, branch, reviews) ==
    IF fail_op = op /\ branch \in failing THEN fault
    ELSE CASE op = "create" ->
                 IF branch \in DOMAIN reviews THEN "already exists" ELSE "ok"
           [] op = "edit" ->
                 IF branch \in DOMAIN reviews THEN "ok" ELSE "not found"
           [] OTHER -> "ok"

\* What a helper of a synchronizer leaves behind: its result, the calls it
\* made and the lines it logged, and the pull requests of the service.
Outcome(res, made, reviews) == [result |-> res, calls |-> made, prs |-> reviews]

\* The trailer of a pull request body: "\n\n" and the tool's signature.
Trailer == <<NL, NL, "yggit">>

\* ------------------------------------------------------------------------
\* github/integration.rs: GitHubIntegration::handle_integration
\* ------------------------------------------------------------------------
\* github/types.rs
BranchState(branch, target_branch, origin, commit_title, commit_description) ==
    [branch |-> branch, target_branch |-> target_branch, origin |-> origin,
     commit_title |-> commit_title, commit_description |-> commit_description]

\* integration.rs 141-165 on the first n commits: the states of the noted
\* branches, with the description of the commit; a later commit of a branch
\* replaces the entry of an earlier one.
RECURSIVE extract_branch_state(_, _)
extract_branch_state(commits, n) ==
    IF n = 0 THEN <<>>
    ELSE IF ~HasPush(commits[n]) THEN extract_branch_state(commits, n - 1)
    ELSE (PushOf(commits[n]).branch :>
             BranchState(PushOf(commits[n]).branch,
                         IF IsSome(PushOf(commits[n]).parent_branch)
                         THEN Unwrap(PushOf(commits[n]).parent_branch) ELSE S_main,
                         PushOf(commits[n]).origin,
                         Some(commits[n].title),
                         commits[n].description))
         @@ extract_branch_state(commits, n - 1)

\* integration.rs 168-190 on the first n parsed commits: a parsed commit has
\* no description.
RECURSIVE extract_branch_state_from_parsed(_, _)
extract_branch_state_from_parsed(commits, n) ==
    IF n = 0 THEN <<>>
    ELSE IF IsNone(commits[n].target)
    THEN extract_branch_state_from_parsed(commits, n - 1)
    ELSE (Unwrap(commits[n].target).branch :>
             BranchState(Unwrap(commits[n].target).branch,
                         IF IsSome(Unwrap(commits[n].target).parent_branch)
                         THEN Unwrap(Unwrap(commits[n].target).parent_branch)
                         ELSE S_main,
                         Unwrap(commits[n].target).origin,
                         Some(commits[n].title),
                         None))
         @@ extract_branch_state_from_parsed(commits, n - 1)

\* integration.rs 67-88: the branch with the description of a branch of the
\* before-state that has its title; the map is walked in no fixed order, so
\* any such branch may be the one found.
find_branch_with_description(after_branch, before) ==
    IF \E x \in DOMAIN before : before[x].commit_title = after_branch.commit_title
    THEN {[after_branch EXCEPT !.commit_description = before[x].commit_description] :
            x \in {y \in DOMAIN before :
                      before[y].commit_title = after_branch.commit_title}}
    ELSE {after_branch}

\* integration.rs 90-115 without the arm of integration.rs 106-109: a pull
\* request that already exists is an error like any other.  The mutant of
\* create_pull_request.
create_pull_request_strict(branch_state, reviews) ==
    With(Call("create_pr", branch_state.branch, branch_state.target_branch,
              <<IF IsSome(branch_state.commit_title)
                THEN Unwrap(branch_state.commit_title) ELSE branch_state.branch,
                (IF IsSome(branch_state.commit_description)
                 THEN Unwrap(branch_state.commit_description) ELSE <<>>) \o Trailer>>),
         LAMBDA call :
      With(GhRun("create", branch_state.branch, reviews), LAMBDA out :
        IF out = "ok"
        THEN Outcome("Ok", <<call>>,
                     (branch_state.branch :> branch_state.target_branch) @@ reviews)
        ELSE Outcome("Err", <<call, Call(IF out = "already exists" THEN "already_exists"
                                         ELSE "create_failed",
                                         branch_state.branch, out, None)>>,
                     reviews)))

\* integration.rs 90-115 over cli.rs 55-75
create_pull_request(branch_state, reviews) ==
    With(Call("create_pr", branch_state.branch, branch_state.target_branch,
              <<IF IsSome(branch_state.commit_title)
                THEN Unwrap(branch_state.commit_title) ELSE branch_state.branch,
                (IF IsSome(branch_state.commit_description)
                 THEN Unwrap(branch_state.commit_description) ELSE <<>>) \o Trailer>>),
         LAMBDA call :
      With(GhRun("create", branch_state.branch, reviews), LAMBDA out :
        CASE out = "ok" ->
               Outcome("Ok", <<call>>,
                       (branch_state.branch :> branch_state.target_branch) @@ reviews)
          [] out = "already exists" ->
               Outcome("Ok", <<call, Call("already_exists", branch_state.branch, None, None)>>,
                       reviews)
          [] OTHER ->
               Outcome("Err", <<call, Call("create_failed", branch_state.branch, out, None)>>,
                       reviews)))

\* integration.rs 117-137 without the arm of integration.rs 128-131: a pull
\* request that is not found is an error like any other.  The mutant of
\* update_pull_request_base.
update_pull_request_base_no_fallback(branch_state, reviews) ==
    With(GhRun("edit", branch_state.branch, reviews), LAMBDA out :
      With(Call("update_pr_base", branch_state.branch, branch_state.target_branch, out),
           LAMBDA call :
        IF out = "ok"
        THEN Outcome("Ok", <<call>>,
                     [reviews EXCEPT ![branch_state.branch] = branch_state.target_branch])
        ELSE Outcome("Err", <<call, Call("update_failed", branch_state.branch, out, None)>>,
                     reviews)))

\* integration.rs 117-137 over cli.rs 77-97
update_pull_request_base(branch_state, reviews) ==
    With(GhRun("edit", branch_state.branch, reviews), LAMBDA out :
      With(Call("update_pr_base", branch_state.branch, branch_state.target_branch, out),
           LAMBDA call :
        CASE out = "ok" ->
               Outcome("Ok", <<call>>,
                       [reviews EXCEPT ![branch_state.branch] = branch_state.target_branch])
          [] out = "not found" ->
               With(create_pull_request(branch_state, reviews), LAMBDA c :
                   Outcome(c.result, <<call>> \o c.calls, c.prs))
          [] OTHER ->
               Outcome("Err", <<call, Call("update_failed", branch_state.branch, out, None)>>,
                       reviews)))

\* integration.rs 49-52 over cli.rs 42-53: the branch was there before with
\* the same target.
CreateIfMissing(before_branch, reviews) ==
    With(GhRun("list", before_branch.branch, reviews), LAMBDA out :
        IF out # "ok"
        THEN Outcome("Err", <<Call("pr_exists", before_branch.branch, None, out)>>, reviews)
        ELSE IF before_branch.branch \in DOMAIN reviews
        THEN Outcome("Ok", <<Call("pr_exists", before_branch.branch, None, TRUE)>>, reviews)
        ELSE With(create_pull_request(before_branch, reviews), LAMBDA c :
                 Outcome(c.result,
                         <<Call("pr_exists", before_branch.branch, None, FALSE)>> \o c.calls,
                         c.prs)))

\* integration.rs 33-55: the turn of the loop for one branch of the
\* after-state; the outcomes it may have.
HandleBranch(branch_name, before, after, reviews) ==
    IF branch_name \notin DOMAIN before
    THEN {create_pull_request(b, reviews) :
            b \in find_branch_with_description(after[branch_name], before)}
    ELSE IF before[branch_name].target_branch # after[branch_name].target_branch
    THEN {update_pull_request_base(after[branch_name], reviews)}
    ELSE {CreateIfMissing(before[branch_name], reviews)}

\* integration.rs 57-62 with a look-up of the review of the removed branch:
\* the mutant of RemovedBranch.
RemovedBranchLookedUp(branch_name) ==
    <<Call("pr_exists", branch_name, None, FALSE), Call("removed", branch_name, None, None)>>

\* integration.rs 57-62 and push.rs 188-192: a branch of the before-state
\* that the after-state does not have is logged.
RemovedBranch(branch_name) == <<Call("removed", branch_name, None, None)>>

\* Where the synchronizer stands when `rest` is what the loop over the
\* after-state has left: in that loop, or at the loop over the before-state.
LoopOver(rest) ==
    IF rest # {} THEN [pc |-> "sync", todo |-> rest]
    ELSE [pc |-> "removed", todo |-> DOMAIN before_state \ DOMAIN after_state]

\* integration.rs 24-30 without the return of integration.rs 24-28: the
\* mutant of IntegrationStart.
IntegrationStartUnchecked ==
    /\ pc = "handle_integration"
    /\ synchronizer = "integration"
    /\ calls' = Append(calls, Call("is_available", None, None, available))
    /\ pc' = LoopOver(DOMAIN after_state).pc
    /\ todo' = LoopOver(DOMAIN after_state).todo
    /\ UNCHANGED <<main_branch, textVars, repoVars, listed, idx, synchronizer,
                   before_state, after_state, gatewayVars, prs, no_pr, edit, result>>

\* integration.rs 24-30
IntegrationStart ==
    /\ pc = "handle_integration"
    /\ synchronizer = "integration"
    /\ calls' = Append(calls, Call("is_available", None, None, available))
    /\ IF ~available
       THEN /\ pc' = "done"
            /\ result' = "Ok"
            /\ UNCHANGED todo
       ELSE /\ pc' = LoopOver(DOMAIN after_state).pc
            /\ todo' = LoopOver(DOMAIN after_state).todo
            /\ UNCHANGED result
    /\ UNCHANGED <<main_branch, textVars, repoVars, listed, idx, synchronizer,
                   before_state, after_state, gatewayVars, prs, no_pr, edit>>

\* integration.rs 33-55: one turn of the loop over the after-state, which is
\* walked in no fixed order; an error returns from handle_integration.
IntegrationStep ==
    /\ pc = "sync"
    /\ synchronizer = "integration"
    /\ \E branch_name \in todo :
         \E o \in HandleBranch(branch_name, before_state, after_state, prs) :
            /\ calls' = calls \o o.calls
            /\ prs' = o.prs
            /\ IF o.result = "Err"
               THEN /\ pc' = "done"
                    /\ result' = "Err"
                    /\ todo' = todo \ {branch_name}
               ELSE /\ pc' = LoopOver(todo \ {branch_name}).pc
                    /\ todo' = LoopOver(todo \ {branch_name}).todo
                    /\ UNCHANGED result
    /\ UNCHANGED <<main_branch, textVars, repoVars, listed, idx, synchronizer,
                   before_state, after_state, gatewayVars, no_pr, edit>>

\* integration.rs 57-64: one turn of the loop over the before-state, and the
\* return.
IntegrationRemoved ==
    /\ pc = "removed"
    /\ synchronizer = "integration"
    /\ IF todo = {}
       THEN /\ pc' = "done"
            /\ result' = "Ok"
            /\ UNCHANGED <<calls, todo>>
       ELSE /\ \E branch_name \in todo :
                  /\ calls' = calls \o RemovedBranch(branch_name)
                  /\ todo' = todo \ {branch_name}
            /\ UNCHANGED <<pc, result>>
    /\ UNCHANGED <<main_branch, textVars, repoVars, listed, idx, synchronizer,
                   before_state, after_state, gatewayVars, prs, no_pr, edit>>

\* ------------------------------------------------------------------------
\* commands/push.rs: handle_github_integration
\* ------------------------------------------------------------------------
\* push.rs 237-296
push_create_pull_request(branch_state, reviews) ==
    With(Call("create_pr", branch_state.branch, branch_state.target_branch,
              <<IF IsSome(branch_state.commit_title)
                THEN Unwrap(branch_state.commit_title) ELSE branch_state.branch,
                <<"auto-created">> \o branch_state.branch \o <<"targeting">>
                    \o branch_state.target_branch \o Trailer>>),
         LAMBDA call :
      With(GhRun("create", branch_state.branch, reviews), LAMBDA out :
        CASE out = "ok" ->
               Outcome("Ok", <<call>>,
                       (branch_state.branch :> branch_state.target_branch) @@ reviews)
          [] out = "already exists" ->
               Outcome("Ok", <<call, Call("already_exists", branch_state.branch, None, None)>>,
                       reviews)
          [] out = "spawn" ->
               Outcome("Err", <<call, Call("gh_error", branch_state.branch, out, None)>>,
                       reviews)
          [] OTHER ->
               Outcome("Ok", <<call, Call("create_failed", branch_state.branch, out, None)>>,
                       reviews)))

\* push.rs 299-337
push_update_pull_request_base(branch_state, reviews) ==
    With(GhRun("edit", branch_state.branch, reviews), LAMBDA out :
      With(Call("update_pr_base", branch_state.branch, branch_state.target_branch, out),
           LAMBDA call :
        CASE out = "ok" ->
               Outcome("Ok", <<call>>,
                       [reviews EXCEPT ![branch_state.branch] = branch_state.target_branch])
          [] out = "not found" ->
               With(push_create_pull_request(branch_state, reviews), LAMBDA c :
                   Outcome(c.result, <<call>> \o c.calls, c.prs))
          [] out = "spawn" ->
               Outcome("Err", <<call, Call("gh_error", branch_state.branch, out, None)>>,
                       reviews)
          [] OTHER ->
               Outcome("Ok", <<call, Call("update_failed", branch_state.branch, out, None)>>,
                       reviews)))

\* push.rs 179-182 over pr_exists, push.rs 207-234: the branch was there
\* before with the same target; a list that exits non-zero counts as no
\* pull request.
push_CreateIfMissing(after_branch, reviews) ==
    With(GhRun("list", after_branch.branch, reviews), LAMBDA out :
        IF out = "spawn"
        THEN Outcome("Err", <<Call("pr_exists", after_branch.branch, None, out)>>, reviews)
        ELSE IF out = "ok" /\ after_branch.branch \in DOMAIN reviews
        THEN Outcome("Ok", <<Call("pr_exists", after_branch.branch, None, TRUE)>>, reviews)
        ELSE With(push_create_pull_request(after_branch, reviews), LAMBDA c :
                 Outcome(c.result,
                         <<Call("pr_exists", after_branch.branch, None, FALSE)>> \o c.calls,
                         c.prs)))

\* push.rs 162-185: the turn of the loop for one branch of the after-state.
push_HandleBranch(branch_name, before, after, reviews) ==
    IF branch_name \notin DOMAIN before
    THEN push_create_pull_request(after[branch_name], reviews)
    ELSE IF before[branch_name].target_branch # after[branch_name].target_branch
    THEN push_update_pull_request_base(after[branch_name], reviews)
    ELSE push_CreateIfMissing(after[branch_name], reviews)

\* push.rs 73-77 with the flag ignored: the synchronizer starts although
\* --no-pr is given.  The mutant of SkipReview.
SkipReviewIgnored ==
    /\ pc = "pushed"
    /\ no_pr
    /\ calls' = Append(calls, Call("is_available", None, None, available))
    /\ IF ~available
       THEN /\ pc' = "done"
            /\ result' = "Ok"
            /\ UNCHANGED todo
       ELSE /\ pc' = LoopOver(DOMAIN after_state).pc
            /\ todo' = LoopOver(DOMAIN after_state).todo
            /\ UNCHANGED result
    /\ UNCHANGED <<main_branch, textVars, repoVars, listed, idx, synchronizer,
                   before_state, after_state, gatewayVars, prs, no_pr, edit>>

\* push.rs 73-77 with --no-pr
SkipReview ==
    /\ pc = "pushed"
    /\ no_pr
    /\ calls' = Append(calls, Call("skip_review", None, None, None))
    /\ pc' = "done"
    /\ result' = "Ok"
    /\ UNCHANGED <<main_branch, textVars, repoVars, listed, idx, reviewVars, no_pr, edit>>

\* push.rs 73-74, 153-159: is_gh_available (push.rs 198-204)
HandleGithubIntegrationStart ==
    /\ pc = "pushed"
    /\ ~no_pr
    /\ synchronizer = "push"
    /\ calls' = Append(calls, Call("is_available", None, None, available))
    /\ IF ~available
       THEN /\ pc' = "done"
            /\ result' = "Ok"
            /\ UNCHANGED todo
       ELSE /\ pc' = LoopOver(DOMAIN after_state).pc
            /\ todo' = LoopOver(DOMAIN after_state).todo
            /\ UNCHANGED result
    /\ UNCHANGED <<main_branch, textVars, repoVars, listed, idx, synchronizer,
                   before_state, after_state, gatewayVars, prs, no_pr, edit>>

\* push.rs 162-185: one turn of the loop over the after-state, which is
\* walked in no fixed order; an error returns from handle_github_integration
\* and from Push::execute.
HandleGithubIntegrationStep ==
    /\ pc = "sync"
    /\ synchronizer = "push"
    /\ \E branch_name \in todo :
         LET o == push_HandleBranch(branch_name, before_state, after_state, prs)
         IN  /\ calls' = calls \o o.calls
             /\ prs' = o.prs
             /\ IF o.result = "Err"
                THEN /\ pc' = "done"
                     /\ result' = "Err"
                     /\ todo' = todo \ {branch_name}
                ELSE /\ pc' = LoopOver(todo \ {branch_name}).pc
                     /\ todo' = LoopOver(todo \ {branch_name}).todo
                     /\ UNCHANGED result
    /\ UNCHANGED <<main_branch, textVars, repoVars, listed, idx, synchronizer,
                   before_state, after_state, gatewayVars, no_pr, edit>>

\* push.rs 188-194, 79: one turn of the loop over the before-state, and the
\* return.
HandleGithubIntegrationRemoved ==
    /\ pc = "removed"
    /\ synchronizer = "push"
    /\ IF todo = {}
       THEN /\ pc' = "done"
            /\ result' = "Ok"
            /\ UNCHANGED <<calls, todo>>
       ELSE /\ \E branch_name \in todo :
                  /\ calls' = calls \o RemovedBranch(branch_name)
                  /\ todo' = todo \ {branch_name}
            /\ UNCHANGED <<pc, result>>
    /\ UNCHANGED <<main_branch, textVars, repoVars, listed, idx, synchronizer,
                   before_state, after_state, gatewayVars, prs, no_pr, edit>>

\* ------------------------------------------------------------------------
\* The synchronizers on their own: before- and after-states are given
\* ------------------------------------------------------------------------
\* Branch names of the states, the bases they may target, the description a
\* commit may have.
ReviewBranches == {S_a, S_b}

ReviewTargets == {S_main, S_p}

S_desc == <<"d">>

\* The states a branch may have before the edit (from a note and its commit)
\* and after it (from the parsed plan, which has no description).
BeforePool(b) ==
    {BranchState(b, t, None, Some(TitleOf(1)), d) :
        t \in ReviewTargets, d \in {None, Some(S_desc)}}

AfterPool(b) ==
    {BranchState(b, t, None, Some(ti), None) :
        t \in ReviewTargets, ti \in {TitleOf(1), TitleOf(2)}}

\* The maps that give some of the branches a state of their pool.
StatesOf(Pool(_)) ==
    UNION {{f \in [D -> UNION {Pool(b) : b \in D}] : \A b \in D : f[b] \in Pool(b)} :
             D \in SUBSET ReviewBranches}

\* The state as commands/push.rs holds it.
Plain(state) ==
    push_BranchState(state.branch, state.target_branch, state.origin, state.commit_title)

\* The pull requests the service holds when the branches of E have one.
ReviewsOf(E, before) ==
    [b \in E |-> IF b \in DOMAIN before THEN before[b].target_branch ELSE S_main]

InitReview ==
    /\ synchronizer \in {"integration", "push"}
    /\ pc = IF synchronizer = "integration" THEN "handle_integration" ELSE "pushed"
    /\ main_branch = S_main
    /\ plan = <<>>
    /\ content = <<>>
    /\ after_commits = None
    /\ output = <<>>
    /\ reparsed = None
    /\ log = <<>>
    /\ notes = NoNotes
    /\ NoRefs
    /\ NoLoop
    /\ \E b \in StatesOf(BeforePool), a \in StatesOf(AfterPool) :
          /\ before_state = IF synchronizer = "push"
                            THEN [x \in DOMAIN b |-> Plain(b[x])] ELSE b
          /\ after_state = IF synchronizer = "push"
                           THEN [x \in DOMAIN a |-> Plain(a[x])] ELSE a
          /\ \E E \in SUBSET ReviewBranches : prs = ReviewsOf(E, b)
    /\ available \in BOOLEAN
    /\ IF available
       THEN \/ fail_op = "none" /\ failing = {} /\ fault = "exit"
            \/ /\ fail_op \in {"create", "edit", "list"}
               /\ failing \in {{S_a}, {S_b}}
               /\ fault \in {"spawn", "exit"}
       ELSE fail_op = "none" /\ failing = {} /\ fault = "exit"
    /\ todo = {}
    /\ no_pr = FALSE
    /\ edit = "none"
    /\ result = "none"

NextReview ==
    \/ IntegrationStart
    \/ IntegrationStep
    \/ IntegrationRemoved
    \/ HandleGithubIntegrationStart
    \/ HandleGithubIntegrationStep
    \/ HandleGithubIntegrationRemoved

SpecReview == InitReview /\ [][NextReview]_vars

\* ------------------------------------------------------------------------
\* commands/push.rs: Push::execute
\* ------------------------------------------------------------------------
\* push.rs 16-34, shortened to a blank line and one line of each kind it
\* has: "# text", "# " and "#".
COMMENTS == <<NL, "#", " ", "h", NL, "#", " ", NL, "#", NL>>

\* What the user may leave of the block of a commit in the plan file.
RunBlocks ==
    { Block("ok", Follow(<<>>, None)),
      Block("ok", Follow(<< <<"-", ">", " ", "a">> >>, None)),
      Block("ok", Follow(<< <<"-", ">", " ", "b">> >>, None)),
      Block("ok", Follow(<< <<"-", ">", " ", "o", ":", "b">> >>, None)),
      Block("ok", Follow(<< <<"-", ">", " ", "a", " ", "=", ">", " ", "p">> >>, Some(S_p))),
      Block("short", Follow(<< <<"-", ">", " ", "a">> >>, None)),
      Block("notitle", Follow(<<>>, None)),
      Block("indent", Follow(<<>>, None)) }

\* The plans the user may write for a log of n commits: nothing at all, or a
\* block for every commit.
RunPlans(n) == {<<>>} \cup [1..n -> RunBlocks]

\* Git::edit_file on the rendered file: the editor is aborted, or the file
\* is read back as it was, or as the user rewrote it above the comments.
edit_file(rendered, n) ==
    {[edit |-> "abort", plan |-> <<>>, content |-> <<>>],
     [edit |-> "kept", plan |-> <<>>, content |-> rendered]}
    \cup {[edit |-> "plan", plan |-> pl, content |-> PlanText(pl) \o <<NL>> \o COMMENTS] :
            pl \in RunPlans(n)}

\* push.rs 39-47: the snapshot of the branch states, the rendering, and the
\* write of the plan file, which may fail.
Snapshot ==
    /\ pc = "start"
    /\ before_state' = push_extract_branch_state(list_commits, Len(list_commits))
    /\ output' = commits_to_string(list_commits) \o <<NL>> \o COMMENTS
    /\ \/ /\ pc' = "edit"
          /\ UNCHANGED result
       \/ /\ pc' = "done"
          /\ result' = "Err"
    /\ UNCHANGED <<main_branch, plan, content, after_commits, reparsed, repoVars,
                   loopVars, synchronizer, after_state, gatewayVars, prs, todo,
                   no_pr, edit>>

\* push.rs 49 with the abort of the editor ignored: the mutant of AfterAbort.
AfterAbortIgnored == [pc |-> "parse", result |-> "none"]

\* push.rs 49: the `?` returns the failure of edit_file from Push::execute.
AfterAbort == [pc |-> "done", result |-> "Err"]

\* push.rs 49: git.edit_file(file_path)?
EditFile ==
    /\ pc = "edit"
    /\ \E e \in edit_file(output, Len(log)) :
          /\ edit' = e.edit
          /\ plan' = e.plan
          /\ content' = e.content
          /\ IF e.edit = "abort"
             THEN /\ pc' = AfterAbort.pc
                  /\ result' = AfterAbort.result
             ELSE /\ pc' = "parse"
                  /\ UNCHANGED result
    /\ UNCHANGED <<main_branch, after_commits, output, reparsed, repoVars, loopVars,
                   reviewVars, no_pr>>

\* The notes the commits may carry when Push::execute starts.
RunNotePool ==
    { None,
      Some(Note(Some(Push(None, S_a, Some(S_main))))),
      Some(Note(Some(Push(None, S_b, Some(S_a))))),
      Some(Note(Some(Push(Some(S_o), S_b, None)))) }

\* What is known of a noted branch when Push::execute starts: never pushed;
\* pushed by an earlier run and untouched since; moved on the remote since.
RunRemoteCases == {"absent", "uptodate", "moved"}

\* The local branches an earlier run left: the noted branches it pushed.
RECURSIVE HeadsOf(_, _, _)
HeadsOf(f, rc, k) ==
    IF k = 0 THEN (S_main :> BaseOid)
    ELSE IF IsNone(f[k]) \/ rc[k] = "absent" THEN HeadsOf(f, rc, k - 1)
    ELSE (Unwrap(Unwrap(f[k]).push).branch :> OidOf(k)) @@ HeadsOf(f, rc, k - 1)

\* Most commits of the log in the runs of Push::execute.
MaxRun == 2

Init ==
    /\ pc = "start"
    /\ main_branch = S_main
    /\ plan = <<>>
    /\ content = <<>>
    /\ after_commits = None
    /\ output = <<>>
    /\ reparsed = None
    /\ \E n \in 1..MaxRun :
          /\ log = LogOf(n)
          /\ \E f \in [1..n -> RunNotePool], rc \in [1..n -> RunRemoteCases] :
                /\ notes = NotesOf(f)
                /\ heads = HeadsOf(f, rc, n)
                /\ tracking = TrackingOf(f, rc, n)
                /\ remote = RemoteOf(f, rc, n)
                /\ prs \in {<<>>,
                            [b \in {Unwrap(Unwrap(f[k]).push).branch :
                                      k \in {j \in 1..n : IsSome(f[j])}} |-> S_main]}
    /\ NoLoop
    /\ synchronizer = "push"
    /\ before_state = <<>>
    /\ after_state = <<>>
    /\ available \in BOOLEAN
    /\ \/ fail_op = "none" /\ failing = {} /\ fault = "exit"
       \/ available /\ fail_op = "create" /\ failing = {S_a} /\ fault = "spawn"
    /\ todo = {}
    /\ no_pr \in BOOLEAN
    /\ edit = "none"
    /\ result = "none"

Next ==
    \/ Snapshot
    \/ EditFile
    \/ ParsePlan
    \/ SaveNotes
    \/ ListCommits
    \/ DagStep
    \/ PushStep
    \/ SkipReview
    \/ HandleGithubIntegrationStart
    \/ HandleGithubIntegrationStep
    \/ HandleGithubIntegrationRemoved

Spec == Init /\ [][Next]_vars

\* ========================================================================
\* Properties
\* ========================================================================
\* The force-pushes among the calls, in order.
ForcePushes(cs) == SelectSeq(cs, LAMBDA c : c.op = "push_force")

\* The push phase stands at a commit that carries a push.
AtPush == pc = "push" /\ idx <= Len(listed) /\ HasPush(listed[idx])

\* For the commit the push phase stands at: the remote it pushes to, R (the
\* last-known remote tip), R' (the live remote tip) and L (the local tip).
HereOrigin == RemoteKey(PushOf(listed[idx]))[1]

HereBranch == PushOf(listed[idx]).branch

HereR == Lookup(tracking, <<HereOrigin, HereBranch>>)

HereR2 == Lookup(remote, <<HereOrigin, HereBranch>>)

HereL == Lookup(heads, HereBranch)

\* C1: reconciler safety.  When the push phase reaches a branch whose
\* last-known remote tip differs from the live one, it pushes neither that
\* branch nor any later one: the step adds no push_force and ends the phase,
\* no push_force follows a "cannot push" among the calls, and none is added
\* once the phase is over.
C1_NoPushAfterDivergence ==
    [][ /\ (AtPush /\ HereR # HereR2) =>
              /\ ForcePushes(calls') = ForcePushes(calls)
              /\ pc' # "push"
              /\ idx' = idx
        /\ pc = "pushed" => ForcePushes(calls') = ForcePushes(calls)
        /\ \A i, j \in 1..Len(calls') :
              (i < j /\ calls'[i].op = "cannot_push") => calls'[j].op # "push_force"
      ]_vars

\* The first branch was refused and a later commit carries a push that the
\* phase never looked at.
C1_Witness ==
    /\ pc = "pushed"
    /\ \E j \in 1..Len(calls) : calls[j].op = "cannot_push"
    /\ ForcePushes(calls) = <<>>
    /\ idx < Len(listed)
    /\ HasPush(listed[idx + 1])

\* C2: push decision table.  For a branch the push phase reaches (no
\* divergence so far), push_force(origin, branch) is issued exactly when
\* R = R' and L # R'; when L = R' nothing is pushed and the phase goes on
\* with the next commit.
C2_DecisionTable ==
    [][ AtPush =>
          /\ (calls' = Append(calls, Call("push_force", HereBranch, HereOrigin, HereL)))
                <=> (HereR = HereR2 /\ HereL # HereR2)
          /\ ForcePushes(calls') # ForcePushes(calls)
                => calls' = Append(calls, Call("push_force", HereBranch, HereOrigin, HereL))
          /\ (HereR = HereR2 /\ HereL = HereR2) =>
                /\ ForcePushes(calls') = ForcePushes(calls)
                /\ pc' = LoopNext("push", "pushed").pc
                /\ idx' = LoopNext("push", "pushed").idx
      ]_vars

\* A branch was found up to date and skipped, and the next one was pushed.
C2_Witness ==
    /\ pc = "pushed"
    /\ \E i, j \in 1..Len(calls) :
          /\ i < j
          /\ calls[i].op = "up_to_date"
          /\ calls[j].op = "push_force"
          /\ calls[i].branch # calls[j].branch

\* The blocks of the plan whose header is a valid commit header.
ValidBlocks == {k \in 1..Len(plan) : plan[k].hdr \in ValidHeaderKinds}

\* The j-th of them: the block the j-th parsed commit was read from.
BlockOfCommit(j) ==
    CHOOSE k \in ValidBlocks : Cardinality({q \in ValidBlocks : q <= k}) = j

\* The branch of the nearest target before commit j, the main branch when
\* there is none.
BranchBefore(cs, j) ==
    LET prev == {i \in 1..(j - 1) : IsSome(cs[i].target)}
    IN  IF prev = {} THEN main_branch
        ELSE Unwrap(cs[CHOOSE i \in prev : \A h \in prev : h <= i].target).branch

\* C3: implicit-parent law.  In every accepted plan a target without
\* "=> parent" has the branch of the nearest preceding target as its parent
\* (the main branch when it is the first), and a target with "=> parent" has
\* exactly that parent and is the last branch for the target after it.
C3_ImplicitParentLaw ==
    pc = "parsed" =>
        LET cs == Unwrap(after_commits)
        IN  /\ Len(cs) = Cardinality(ValidBlocks)
            /\ \A j \in 1..Len(cs) :
                  IsSome(cs[j].target) =>
                     LET ex == plan[BlockOfCommit(j)].follow.explicit
                     IN  Unwrap(cs[j].target).parent_branch =
                            (IF IsSome(ex) THEN ex ELSE Some(BranchBefore(cs, j)))

\* A parsed plan of three targets, explicit, explicit, implicit: the third
\* chains off the second, whose own parent was explicit.
C3_Witness ==
    /\ pc = "parsed"
    /\ Len(plan) = 3
    /\ Len(Unwrap(after_commits)) = 3
    /\ IsSome(plan[1].follow.explicit)
    /\ IsSome(plan[2].follow.explicit)
    /\ IsNone(plan[3].follow.explicit)
    /\ \A j \in 1..3 : IsSome(Unwrap(after_commits)[j].target)
    /\ Unwrap(Unwrap(after_commits)[2].target).branch = S_b
    /\ Unwrap(Unwrap(after_commits)[2].target).parent_branch = Some(S_a)
    /\ Unwrap(Unwrap(after_commits)[3].target).parent_branch = Some(S_b)

\* The target read back for a commit agrees with the commit's note.
SameTarget(note, target) ==
    IF IsNone(note) \/ IsNone(Unwrap(note).push) THEN IsNone(target)
    ELSE LET pu == Unwrap(Unwrap(note).push)
         IN  /\ IsSome(target)
             /\ Unwrap(target).origin = pu.origin
             /\ Unwrap(target).branch = pu.branch
             /\ IsSome(pu.parent_branch) =>
                   Unwrap(target).parent_branch = pu.parent_branch

\* C4: round trip.  Parsing the rendering of any list of commits with valid
\* notes is accepted and gives the same ids in the same order, the same
\* origin and branch per commit, and the stored parent where one is stored.
C4_RoundTrip ==
    pc = "reparsed" /\ plan = <<>> =>
        /\ IsSome(reparsed)
        /\ Len(Unwrap(reparsed)) = Len(log)
        /\ \A k \in 1..Len(log) :
              /\ Unwrap(reparsed)[k].hash = log[k].id
              /\ SameTarget(notes[log[k].id], Unwrap(reparsed)[k].target)

\* Two parses are the same plan: ids, order, origin, branch, parent.
SamePlan(x, y) ==
    /\ IsSome(x) = IsSome(y)
    /\ IsSome(x) =>
         /\ Len(Unwrap(x)) = Len(Unwrap(y))
         /\ \A k \in 1..Len(Unwrap(x)) :
               /\ Unwrap(x)[k].hash = Unwrap(y)[k].hash
               /\ Unwrap(x)[k].target = Unwrap(y)[k].target

\* C5: idempotence of save, on the accepted plans that keep a valid header
\* for every commit of the log: parse, save_note, list_commits, render, parse
\* gives the plan of the first parse (ids, order, origin, branch, parent).
C5_SaveIdempotent ==
    pc = "reparsed" /\ plan # <<>> /\ Cardinality(ValidBlocks) = Len(log)
        => SamePlan(after_commits, reparsed)

\* The review-gateway operations among the calls.
GatewayOps == {"pr_exists", "create_pr", "update_pr_base"}

\* The synchronizer ran with the gateway available and has returned.
Synchronized ==
    /\ pc = "done"
    /\ available
    /\ \E k \in 1..Len(calls) : calls[k].op = "is_available"

\* C6: review diff, new branches.  When the gateway is available and the
\* synchronizer has returned, create was called for every branch of the
\* after-state that the before-state does not have, with that branch's
\* after-state target_branch as the base.
C6_CreateForNewBranches ==
    Synchronized =>
        \A b \in DOMAIN after_state \ DOMAIN before_state :
            \E k \in 1..Len(calls) :
                /\ calls[k].op = "create_pr"
                /\ calls[k].branch = b
                /\ calls[k].a = after_state[b].target_branch

\* C7: review diff, retarget.  When the gateway is available and the
\* synchronizer has returned, retarget(branch, after target_branch) was
\* called for every branch of both states whose target_branch changed, and
\* no create was issued for a branch whose retarget succeeded.
C7_RetargetChanged ==
    Synchronized =>
        \A b \in DOMAIN after_state \cap DOMAIN before_state :
            before_state[b].target_branch # after_state[b].target_branch =>
                /\ \E k \in 1..Len(calls) :
                      /\ calls[k].op = "update_pr_base"
                      /\ calls[k].branch = b
                      /\ calls[k].a = after_state[b].target_branch
                /\ (\E k \in 1..Len(calls) :
                       /\ calls[k].op = "update_pr_base"
                       /\ calls[k].branch = b
                       /\ calls[k].b = "ok")
                     => \A k \in 1..Len(calls) :
                           ~(calls[k].op = "create_pr" /\ calls[k].branch = b)

\* C8: review diff, removed branches.  No exists, create or retarget call is
\* ever made for a branch that the before-state has and the after-state
\* does not.
C8_NoCallForRemoved ==
    \A k \in 1..Len(calls) :
        calls[k].op \in GatewayOps =>
            calls[k].branch \notin DOMAIN before_state \ DOMAIN after_state

\* The synchronizer returned success after a gateway call for a branch of
\* the after-state, and logged the removal of a branch that only the
\* before-state has.
C8_Witness ==
    /\ Synchronized
    /\ result = "Ok"
    /\ \E k \in 1..Len(calls) : calls[k].op \in GatewayOps
    /\ \E b \in DOMAIN before_state \ DOMAIN after_state :
          \E k \in 1..Len(calls) : calls[k].op = "removed" /\ calls[k].branch = b

\* Nothing the operation can change has changed in this step: notes, local
\* branches, remote-tracking refs, remotes, pull requests; and no call has
\* been made.
NothingMutated ==
    /\ notes' = notes
    /\ heads' = heads
    /\ tracking' = tracking
    /\ remote' = remote
    /\ prs' = prs
    /\ calls' = <<>>

\* C9: editor abort.  Up to the return of edit_file nothing is mutated; when
\* edit_file reports the abort, Push::execute returns failure in that very
\* step, and nothing happens after it: no note is written or deleted, no
\* branch is set, no push_force is issued, no review-gateway call is made.
C9_EditorAbort ==
    [][ /\ pc \in {"start", "edit"} => NothingMutated
        /\ (pc = "edit" /\ edit' = "abort") => (pc' = "done" /\ result' = "Err")
        /\ edit = "abort" => UNCHANGED vars
      ]_vars

\* The editor was aborted in a repository whose commits carry notes.
C9_Witness ==
    /\ edit = "abort"
    /\ pc = "done"
    /\ result = "Err"
    /\ calls = <<>>
    /\ \E id \in AllOids : IsSome(notes[id])

\* The edited text holds no valid commit header: the file was read back
\* unchanged from an empty log, or no block the user wrote has a header of
\* 40 hex digits, whitespace and a non-empty title.
NoValidHeader ==
    IF edit = "plan" THEN ValidBlocks = {} ELSE Len(log) = 0

\* C10: parse-none.  The parse of the edited text gives none exactly when
\* the text holds no valid commit header; in that case Push::execute fails
\* in that very step with notes, refs, remotes and pull requests unchanged
\* and no call made, and nothing happens after it.
C10_ParseNone ==
    [][ /\ pc = "parse" =>
              /\ IsNone(after_commits') <=> NoValidHeader
              /\ IsNone(after_commits') =>
                    (pc' = "failed" /\ result' = "Err" /\ NothingMutated)
        /\ pc = "failed" => UNCHANGED vars
      ]_vars

\* A plan of blocks without any valid header was refused in a repository
\* whose commits carry notes.
C10_Witness ==
    /\ pc = "failed"
    /\ result = "Err"
    /\ edit = "plan"
    /\ Len(plan) > 0
    /\ ValidBlocks = {}
    /\ calls = <<>>
    /\ \E id \in AllOids : IsSome(notes[id])

\* The phase of Push::execute an operation belongs to: 1 for a note written
\* or deleted, 2 for a branch set, 3 for a force-push, 4 for a call of the
\* review gateway, 0 for a line that is only printed.
PhaseOf(op) ==
    CASE op \in {"set_note", "delete_note"} -> 1
      [] op = "set_branch" -> 2
      [] op = "push_force" -> 3
      [] op \in GatewayOps \cup {"is_available"} -> 4
      [] OTHER -> 0

\* The latest phase among the operations of cs.
LastPhase(cs) ==
    IF \E k \in 1..Len(cs) : PhaseOf(cs[k].op) = 4 THEN 4
    ELSE IF \E k \in 1..Len(cs) : PhaseOf(cs[k].op) = 3 THEN 3
    ELSE IF \E k \in 1..Len(cs) : PhaseOf(cs[k].op) = 2 THEN 2
    ELSE IF \E k \in 1..Len(cs) : PhaseOf(cs[k].op) = 1 THEN 1
    ELSE 0

\* C11: phase ordering.  In a run of Push::execute no operation is issued
\* after an operation of a later phase: every note write or delete comes
\* before the first set_branch, every set_branch before the first
\* push_force, every push_force before the first review-gateway call; and
\* the notes, the local branches and the remotes change only while no
\* operation of a later phase has been issued.
C11_PhaseOrdering ==
    [][ /\ \A i, j \in 1..Len(calls') :
              (i < j /\ PhaseOf(calls'[i].op) > 0 /\ PhaseOf(calls'[j].op) > 0)
                 => PhaseOf(calls'[i].op) <= PhaseOf(calls'[j].op)
        /\ notes' # notes => LastPhase(calls) <= 1 /\ LastPhase(calls') = 1
        /\ heads' # heads => LastPhase(calls) <= 2 /\ LastPhase(calls') = 2
        /\ remote' # remote => LastPhase(calls) <= 3 /\ LastPhase(calls') = 3
      ]_vars

\* A run went through all four phases: a note was written, a branch set and
\* force-pushed, and a pull request created.
C11_Witness ==
    /\ pc = "done"
    /\ result = "Ok"
    /\ \E k \in 1..Len(calls) : calls[k].op = "set_note"
    /\ \E k \in 1..Len(calls) : calls[k].op = "set_branch"
    /\ \E k \in 1..Len(calls) : calls[k].op = "push_force"
    /\ \E k \in 1..Len(calls) : calls[k].op = "create_pr"

\* The commits push_from_notes listed that carry a push, in the order of the
\* log.
Noted == SelectSeq(listed, HasPush)

\* The calls of one phase, in the order they were issued.
NoteCalls == SelectSeq(calls, LAMBDA c : c.op \in {"set_note", "delete_note"})

SetCalls == SelectSeq(calls, LAMBDA c : c.op = "set_branch")

PushCalls == SelectSeq(calls, LAMBDA c : c.op \in {"push_force", "up_to_date", "cannot_push"})

ReviewCalls == SelectSeq(calls, LAMBDA c : c.op \in GatewayOps)

\* save_note has gone through the commits of the plan in their order.
SavedInPlanOrder ==
    NoteCalls # <<>> =>
        /\ Len(NoteCalls) = Len(Unwrap(after_commits))
        /\ \A k \in 1..Len(NoteCalls) : NoteCalls[k].a = Unwrap(after_commits)[k].hash

\* The branches are set in the order of their commits.
SetInPlanOrder ==
    /\ Len(SetCalls) <= Len(Noted)
    /\ \A k \in 1..Len(SetCalls) :
          /\ SetCalls[k].a = Noted[k].id
          /\ SetCalls[k].branch = PushOf(Noted[k]).branch

\* The branches are pushed, found up to date or refused in the order of
\* their commits.
PushedInPlanOrder ==
    /\ Len(PushCalls) <= Len(Noted)
    /\ \A k \in 1..Len(PushCalls) : PushCalls[k].branch = PushOf(Noted[k]).branch

\* Branch x stands in the plan at or before a place where branch y stands.
PlanBefore(x, y) ==
    \E p, q \in 1..Len(Unwrap(after_commits)) :
        /\ p <= q
        /\ IsSome(Unwrap(after_commits)[p].target)
        /\ IsSome(Unwrap(after_commits)[q].target)
        /\ Unwrap(Unwrap(after_commits)[p].target).branch = x
        /\ Unwrap(Unwrap(after_commits)[q].target).branch = y

\* The review gateway is called for the branches in the order of the plan.
ReviewedInPlanOrder ==
    \A i, j \in 1..Len(ReviewCalls) :
        i < j => PlanBefore(ReviewCalls[i].branch, ReviewCalls[j].branch)

\* C12: plan order within each phase.  The notes are saved, the branches
\* set, the branches pushed and the review gateway called for the branches
\* in the order of the plan, oldest commit first.
C12_PlanOrder ==
    /\ SavedInPlanOrder
    /\ SetInPlanOrder
    /\ PushedInPlanOrder
    /\ ReviewedInPlanOrder

\* The places of the post-edit plan that name commit id.
PlacesOf(id) ==
    {k \in 1..Len(Unwrap(after_commits)) : Unwrap(after_commits)[k].hash = id}

\* The note save_note leaves for a commit of the plan: none when the commit
\* has no target, else the push made of the target's origin, branch and
\* parent_branch.
NoteOfPlan(commit) ==
    IF IsNone(commit.target) THEN None
    ELSE Some([push |-> Some([origin |-> Unwrap(commit.target).origin,
                              branch |-> Unwrap(commit.target).branch,
                              parent_branch |-> Unwrap(commit.target).parent_branch])])

\* C13: save semantics and frame.  save_note issues one delete_note or
\* set_note for each commit of the post-edit plan; it leaves a commit of the
\* plan without a note when the commit has no target and otherwise with the
\* note made of its target; the note of a commit that the plan does not
\* name is as it was.
C13_SaveSemantics ==
    [][ pc = "parsed" =>
          /\ \A id \in AllOids :
                IF PlacesOf(id) = {} THEN notes'[id] = notes[id]
                ELSE \E k \in PlacesOf(id) :
                        /\ \A m \in PlacesOf(id) : m <= k
                        /\ notes'[id] = NoteOfPlan(Unwrap(after_commits)[k])
          /\ Len(calls') = Len(calls) + Len(Unwrap(after_commits))
          /\ \A k \in 1..Len(Unwrap(after_commits)) :
                /\ calls'[Len(calls) + k].a = Unwrap(after_commits)[k].hash
                /\ calls'[Len(calls) + k].op =
                      IF IsNone(Unwrap(after_commits)[k].target)
                      THEN "delete_note" ELSE "set_note"
      ]_vars

\* Both commits of the log carried a note; save_note deleted the note of one
\* and left the note of the other, which the plan does not name.
C13_Witness ==
    /\ pc = "saved"
    /\ Cardinality(DOMAIN before_state) = 2
    /\ \E k \in 1..Len(calls) : calls[k].op = "delete_note"
    /\ \E id \in AllOids : IsSome(notes[id]) /\ PlacesOf(id) = {}

\* C14: materializer failure isolation.  The loop that sets the branches
\* calls set_branch_to_commit_with_parent(push.branch, id,
\* push.parent_branch) for the commits that carry a push, in the order of
\* the list and with the parent as the note stores it; once the loop is
\* over it has done so once for every such commit, whether or not an
\* earlier call failed, and every branch stands where the last call that
\* succeeded for it has set it, a call that failed having moved nothing.
C14_MaterializerIsolation ==
    /\ Len(SetCalls) <= Len(Noted)
    /\ \A k \in 1..Len(SetCalls) :
          /\ SetCalls[k].branch = PushOf(Noted[k]).branch
          /\ SetCalls[k].a = Noted[k].id
          /\ SetCalls[k].b[1] = PushOf(Noted[k]).parent_branch
    /\ pc \in {"push", "pushed"} => Len(SetCalls) = Len(Noted)
    /\ \A x \in DOMAIN heads \ {S_main} :
          \E k \in 1..Len(SetCalls) :
              /\ SetCalls[k].branch = x
              /\ SetCalls[k].b[2]
              /\ heads[x] = SetCalls[k].a
              /\ \A m \in (k + 1)..Len(SetCalls) :
                    SetCalls[m].branch = x => ~SetCalls[m].b[2]

\* The branch of the first noted commit could not be set, its parent being
\* no branch; the branch of the second was set all the same.
C14_Witness ==
    /\ pc = "push"
    /\ Len(SetCalls) = 2
    /\ ~SetCalls[1].b[2]
    /\ SetCalls[2].b[2]
    /\ heads[SetCalls[2].branch] = SetCalls[2].a

\* C15: review gateway unavailable.  When the gateway is not available the
\* synchronizer never enters its loops and makes no exists, create or
\* retarget call, whatever the before- and after-states; once it has asked
\* for the availability it has returned success.
C15_Unavailable ==
    ~available =>
        /\ \A k \in 1..Len(calls) : calls[k].op \notin GatewayOps
        /\ pc \notin {"sync", "removed"}
        /\ calls # <<>> => (pc = "done" /\ result = "Ok")

\* The synchronizer returned at once although the after-state has a new
\* branch and a branch whose target changed.
C15_Witness ==
    /\ ~available
    /\ pc = "done"
    /\ result = "Ok"
    /\ \E k \in 1..Len(calls) : calls[k].op = "is_available"
    /\ DOMAIN after_state \ DOMAIN before_state # {}
    /\ \E b \in DOMAIN after_state \cap DOMAIN before_state :
          before_state[b].target_branch # after_state[b].target_branch

\* The gateway was called for branch b.
Processed(b) ==
    \E k \in 1..Len(calls) : calls[k].op \in GatewayOps /\ calls[k].branch = b

\* C16: per-branch review errors do not stop the synchronizer.  When the
\* only calls that fail are creates or retargets, and they fail with an
\* error other than "already exists" and "not found", the synchronizer has
\* processed every branch of the after-state by the time it has left the
\* loop over the after-state.
C16_ErrorsDoNotStop ==
    (/\ available
     /\ fail_op \in {"create", "edit"}
     /\ pc \in {"removed", "done"}
     /\ \E k \in 1..Len(calls) : calls[k].op = "is_available")
        => \A b \in DOMAIN after_state : Processed(b)

\* The call at place k is a retarget that found no pull request.
RetargetNotFound(k) ==
    calls[k].op = "update_pr_base" /\ calls[k].b = "not found"

\* C17: retarget fallback.  A retarget that reports that no pull request was
\* found is followed at once by a create for the same branch whose base is
\* the target_branch of the after-state; when that create succeeds the
\* synchronizer goes on without an error.
C17_RetargetFallback ==
    \A k \in 1..Len(calls) :
        RetargetNotFound(k) =>
            /\ k < Len(calls)
            /\ calls[k + 1].op = "create_pr"
            /\ calls[k + 1].branch = calls[k].branch
            /\ calls[k + 1].a = after_state[calls[k].branch].target_branch
            /\ (calls[k].branch \in DOMAIN prs /\ k + 1 = Len(calls)) => result # "Err"

\* A retarget found no pull request, the create that followed made one, and
\* the synchronizer went on to another branch and returned success.
C17_Witness ==
    /\ pc = "done"
    /\ result = "Ok"
    /\ \E k \in 1..Len(calls) :
          /\ RetargetNotFound(k)
          /\ k + 1 < Len(calls)
          /\ calls[k].branch \in DOMAIN prs
          /\ prs[calls[k].branch] = after_state[calls[k].branch].target_branch
          /\ calls[k + 2].op \in GatewayOps
          /\ calls[k + 2].branch # calls[k].branch

\* The look-up at place k answered that the branch has no pull request.
ExistsFalse(k) == ToString(calls[k].b) = ToString(FALSE)

\* The call at place k + 1 is a create for the branch of the call at k.
CreateFollows(k) ==
    /\ k < Len(calls)
    /\ calls[k + 1].op = "create_pr"
    /\ calls[k + 1].branch = calls[k].branch

\* C18: missing review for an unchanged branch.  The gateway is asked
\* whether a pull request exists only for a branch of both states whose
\* target_branch is the same; a create for the branch follows exactly when
\* the answer is no, and that create has the title and the description of
\* the branch in the before-state.
C18_MissingReview ==
    \A k \in 1..Len(calls) :
        calls[k].op = "pr_exists" =>
            /\ calls[k].branch \in DOMAIN before_state \cap DOMAIN after_state
            /\ before_state[calls[k].branch].target_branch
                  = after_state[calls[k].branch].target_branch
            /\ ExistsFalse(k) <=> CreateFollows(k)
            /\ CreateFollows(k) =>
                  /\ calls[k + 1].b[1] = Unwrap(before_state[calls[k].branch].commit_title)
                  /\ "commit_description" \in DOMAIN before_state[calls[k].branch] =>
                        calls[k + 1].b[2] =
                            (IF IsSome(before_state[calls[k].branch].commit_description)
                             THEN Unwrap(before_state[calls[k].branch].commit_description)
                             ELSE <<>>) \o Trailer

\* This step ended with a create that was answered "already exists".
AlreadyExistsNow ==
    /\ Len(calls') > Len(calls)
    /\ calls'[Len(calls')].op = "already_exists"

\* C19: "already exists" is success.  A step of the synchronizer whose
\* create fails with an error that contains "already exists" reports no
\* failure, leaves the pull requests as they are, and goes on: to the next
\* branch of the after-state if there is one, else to the loop over the
\* before-state.
C19_AlreadyExists ==
    [][ AlreadyExistsNow =>
          /\ calls'[Len(calls') - 1].op = "create_pr"
          /\ calls'[Len(calls') - 1].branch = calls'[Len(calls')].branch
          /\ result' = "none"
          /\ prs' = prs
          /\ pc' = IF todo \ {calls'[Len(calls')].branch} # {} THEN "sync" ELSE "removed"
          /\ pc' = "sync" => todo' = todo \ {calls'[Len(calls')].branch}
      ]_vars

\* A create was answered "already exists", the gateway was then called for
\* another branch, and the synchronizer returned success.
C19_Witness ==
    /\ pc = "done"
    /\ result = "Ok"
    /\ \E k \in 1..Len(calls) :
          /\ calls[k].op = "already_exists"
          /\ k < Len(calls)
          /\ calls[k + 1].op \in GatewayOps
          /\ calls[k + 1].branch # calls[k].branch

\* Push::execute parsed a plan and has returned.
RanToTheEnd == pc = "done" /\ IsSome(after_commits)

\* C20: --no-pr.  With the flag set Push::execute makes no call of the
\* review gateway, neither available nor exists, create or retarget.  With
\* or without the flag, a run that parsed a plan and returned has issued a
\* note call for every commit of the plan, tried to set the branch of every
\* noted commit, and gone through the push loop to its end or to a refusal;
\* with the flag it then printed that the review is skipped and returned
\* success, without it it asked the gateway for its availability after
\* every note, branch and push operation.
C20_NoReview ==
    /\ no_pr => \A k \in 1..Len(calls) : PhaseOf(calls[k].op) # 4
    /\ RanToTheEnd =>
          /\ Len(NoteCalls) = Len(Unwrap(after_commits))
          /\ Len(SetCalls) = Len(Noted)
          /\ \/ Len(PushCalls) = Len(Noted)
             \/ PushCalls[Len(PushCalls)].op = "cannot_push"
          /\ IF no_pr
             THEN /\ result = "Ok"
                  /\ calls[Len(calls)].op = "skip_review"
             ELSE \E k \in 1..Len(calls) :
                     /\ calls[k].op = "is_available"
                     /\ \A m \in 1..Len(calls) :
                           PhaseOf(calls[m].op) \in 1..3 => m < k

\* With --no-pr a run wrote a note for a new branch, set the branch and
\* force-pushed it, and returned without a call of the gateway.
C20_Witness ==
    /\ no_pr
    /\ pc = "done"
    /\ result = "Ok"
    /\ DOMAIN after_state \ DOMAIN before_state # {}
    /\ \E k \in 1..Len(calls) : calls[k].op = "set_note"
    /\ \E k \in 1..Len(calls) : calls[k].op = "set_branch"
    /\ \E k \in 1..Len(calls) : calls[k].op = "push_force"

\* The push phase of this run has refused a branch.
Refused(cs) == \E k \in 1..Len(cs) : cs[k].op = "cannot_push"

\* Every note save_note wrote in this run is in the table, and every branch
\* stands where the last set_branch that succeeded for it has set it.
EarlierWorkInPlace(cs, table, branches) ==
    /\ \A k \in 1..Len(cs) :
          (cs[k].op = "set_note"
             /\ \A m \in (k + 1)..Len(cs) :
                   cs[m].op \in {"set_note", "delete_note"} => cs[m].a # cs[k].a)
          => table[cs[k].a] = Some(cs[k].b)
    /\ \A k \in 1..Len(cs) :
          (cs[k].op = "set_branch" /\ cs[k].b[2]
             /\ \A m \in (k + 1)..Len(cs) :
                   (cs[m].op = "set_branch" /\ cs[m].branch = cs[k].branch) => ~cs[m].b[2])
          => (cs[k].branch \in DOMAIN branches /\ branches[cs[k].branch] = cs[k].a)

\* C21: divergence leaves earlier work in place.  From the step in which
\* the push phase refuses a branch because its remote has moved, every note
\* saved and every branch set earlier in the run has its value, and no note,
\* local branch, remote-tracking ref or remote branch changes any more.
C21_DivergenceKeepsWork ==
    [][ Refused(calls') =>
          /\ EarlierWorkInPlace(calls', notes', heads')
          /\ notes' = notes
          /\ heads' = heads
          /\ tracking' = tracking
          /\ remote' = remote
      ]_vars

\* A run saved a note and set its branch, was refused the push of a branch,
\* and went on to its end.
C21_Witness ==
    /\ pc = "done"
    /\ Refused(calls)
    /\ \E k \in 1..Len(calls) : calls[k].op = "set_note"
    /\ \E k \in 1..Len(calls) : calls[k].op = "set_branch" /\ calls[k].b[2]
    /\ \E id \in AllOids : IsSome(notes[id])

\* A line the parser is to ignore: blank, or starting with "#".
Ignorable(line) == Trim(line) = <<>> \/ StartsWith(Trim(line), <<"#">>)

\* The plan without its blank and comment lines.
WithoutIgnorable(blocks) ==
    [k \in 1..Len(blocks) |->
        Block(blocks[k].hdr,
              Follow(SelectSeq(blocks[k].follow.lines, LAMBDA l : ~Ignorable(l)),
                     blocks[k].follow.explicit))]

\* C22: blank and comment lines are ignored.  The parser returns for a plan
\* what it returns for the same plan with its blank lines and "#" lines
\* removed, also when such a line stands between a header and its target
\* line.
C22_IgnoredLines ==
    pc # "parse" =>
        after_commits =
            instruction_from_string_with_main_branch(
                PlanText(WithoutIgnorable(plan)), main_branch)

\* The line right after the header of block k, trimmed: the first line
\* under the header, else the header line of the next block; none when the
\* text ends with the header.
LineAfterHeader(k) ==
    IF plan[k].follow.lines # <<>> THEN Some(Trim(plan[k].follow.lines[1]))
    ELSE IF k < Len(plan) THEN Some(Trim(HeaderLine(plan[k + 1].hdr, k + 1)))
    ELSE None

\* Block k has a line that starts with "->" right after its header.
HasArrowAfterHeader(k) ==
    IsSome(LineAfterHeader(k)) /\ StartsWith(Unwrap(LineAfterHeader(k)), <<"-", ">">>)

\* C23: target attachment.  The parser returns one commit for each valid
\* header, in order.  A commit has a target only when the line right after
\* its header starts with "->", and the target's origin and branch are read
\* from that line; every other "->" line is without effect: a target that
\* names no parent has the branch of the nearest target before it, read in
\* the same way, as its parent.
C23_TargetAttachment ==
    pc = "parsed" =>
        /\ Len(Unwrap(after_commits)) = Cardinality(ValidBlocks)
        /\ \A j \in 1..Len(Unwrap(after_commits)) :
              /\ Unwrap(after_commits)[j].hash = OidOf(BlockOfCommit(j))
              /\ IsSome(Unwrap(after_commits)[j].target) =>
                    /\ HasArrowAfterHeader(BlockOfCommit(j))
                    /\ TargetCaps(Unwrap(LineAfterHeader(BlockOfCommit(j)))).ok
                    /\ Unwrap(Unwrap(after_commits)[j].target).branch =
                          Trim(TargetCaps(Unwrap(LineAfterHeader(BlockOfCommit(j)))).branch)
                    /\ Unwrap(Unwrap(after_commits)[j].target).origin =
                          TargetCaps(Unwrap(LineAfterHeader(BlockOfCommit(j)))).origin
                    /\ IsNone(plan[BlockOfCommit(j)].follow.explicit) =>
                          Unwrap(Unwrap(after_commits)[j].target).parent_branch =
                              Some(BranchBefore(Unwrap(after_commits), j))
              /\ ~HasArrowAfterHeader(BlockOfCommit(j)) =>
                    IsNone(Unwrap(after_commits)[j].target)

\* A plan was parsed that starts with a "->" line, has a "->" line after
\* the target of a commit, and has a later commit whose target names no
\* parent.
C23_Witness ==
    /\ pc = "parsed"
    /\ Len(plan) = 3
    /\ plan[1].hdr = "arrow"
    /\ plan[2].hdr = "ok"
    /\ Len(plan[2].follow.lines) = 2
    /\ HasArrowAfterHeader(2)
    /\ StartsWith(plan[2].follow.lines[2], <<"-", ">">>)
    /\ Len(Unwrap(after_commits)) = 2
    /\ IsSome(Unwrap(after_commits)[2].target)
    /\ Unwrap(Unwrap(after_commits)[2].target).parent_branch = Some(S_a)

\* C24: the parent is always populated (I2).  Every target of a plan the
\* parser returned has a parent_branch, and so has the push of every note
\* save_note wrote.
C24_ParentPopulated ==
    /\ (pc # "parse" /\ IsSome(after_commits)) =>
          \A j \in 1..Len(Unwrap(after_commits)) :
              IsSome(Unwrap(after_commits)[j].target) =>
                  IsSome(Unwrap(Unwrap(after_commits)[j].target).parent_branch)
    /\ \A id \in AllOids :
          (IsSome(notes[id]) /\ IsSome(Unwrap(notes[id]).push)) =>
              IsSome(Unwrap(Unwrap(notes[id]).push).parent_branch)

\* save_note wrote two notes from targets that name no parent: one has the
\* main branch as its parent, the other the branch of the first.
C24_Witness ==
    /\ pc = "saved"
    /\ Len(plan) = 2
    /\ IsNone(plan[1].follow.explicit)
    /\ IsNone(plan[2].follow.explicit)
    /\ IsSome(notes[OidOf(1)])
    /\ IsSome(notes[OidOf(2)])
    /\ Unwrap(Unwrap(notes[OidOf(1)]).push).parent_branch = Some(S_main)
    /\ Unwrap(Unwrap(notes[OidOf(2)]).push).parent_branch
          = Some(Unwrap(Unwrap(notes[OidOf(1)]).push).branch)

\* C25: no empty branch (I1).  No target of a plan the parser returned has
\* an empty branch.
C25_NoEmptyBranch ==
    pc = "parsed" =>
        \A j \in 1..Len(Unwrap(after_commits)) :
            IsSome(Unwrap(after_commits)[j].target) =>
                Unwrap(Unwrap(after_commits)[j].target).branch # <<>>

\* Where the first "=>" of s starts, 0 when s has none.
FirstArrow(s) ==
    IF \E p \in 1..(Len(s) - 1) : s[p] = "=" /\ s[p + 1] = ">"
    THEN CHOOSE p \in 1..(Len(s) - 1) :
            /\ s[p] = "=" /\ s[p + 1] = ">"
            /\ \A q \in 1..(p - 1) : ~(s[q] = "=" /\ s[q + 1] = ">")
    ELSE 0

\* A name of the grammar: not empty once trimmed, and without ":".
IsName(s) == Trim(s) # <<>> /\ \A k \in 1..Len(s) : s[k] # ":"

\* [ORIGIN ":"] BRANCH of the grammar.
IsOriginAndBranch(s) ==
    IF FirstColon(s, 1) = 0 THEN IsName(s)
    ELSE /\ IsName(SubSeq(s, 1, FirstColon(s, 1) - 1))
         /\ IsName(SubSeq(s, FirstColon(s, 1) + 1, Len(s)))

\* TARGET of the grammar: "->" [ORIGIN ":"] BRANCH ["=>" PARENT], the names
\* not empty once trimmed.
WellFormedTarget(line) ==
    /\ StartsWith(line, <<"-", ">">>)
    /\ LET rest == SubSeq(line, 3, Len(line))
           p == FirstArrow(rest)
       IN  IF p = 0 THEN IsOriginAndBranch(rest)
           ELSE /\ IsOriginAndBranch(SubSeq(rest, 1, p - 1))
                /\ IsName(SubSeq(rest, p + 2, Len(rest)))

\* The line under the header of this block starts with "->" and is no
\* target of the grammar.
MalformedUnder(block) ==
    /\ block.hdr \in ValidHeaderKinds
    /\ block.follow.lines # <<>>
    /\ StartsWith(Trim(block.follow.lines[1]), <<"-", ">">>)
    /\ ~WellFormedTarget(Trim(block.follow.lines[1]))

\* The plan with every such line made a comment.
MalformedCommented(blocks) ==
    [k \in 1..Len(blocks) |->
        IF MalformedUnder(blocks[k])
        THEN Block(blocks[k].hdr,
                   Follow(<< <<"#">> >> \o Tail(blocks[k].follow.lines), None))
        ELSE blocks[k]]

\* C26: malformed target lines are dropped, not fatal.  A plan with a valid
\* header is parsed; a commit whose header is followed by a "->" line that
\* is no well-formed target is returned without a target; and the commits
\* and targets returned are those of the plan without such lines.
C26_MalformedDropped ==
    pc # "parse" =>
        /\ ValidBlocks # {} => pc = "parsed"
        /\ pc = "parsed" =>
              \A j \in 1..Len(Unwrap(after_commits)) :
                  MalformedUnder(plan[BlockOfCommit(j)]) =>
                      IsNone(Unwrap(after_commits)[j].target)
        /\ after_commits =
              instruction_from_string_with_main_branch(
                  PlanText(MalformedCommented(plan)), main_branch)

\* ------------------------------------------------------------------------
\* C27
\* ------------------------------------------------------------------------
Max(S) == CHOOSE m \in S : \A k \in S : k <= m

\* The places of the commits push_from_notes listed whose note names x.
NotedAt(x) == {k \in 1..Len(listed) : HasPush(listed[k]) /\ PushOf(listed[k]).branch = x}

\* The places of the parsed commits whose target names x.
TargetedAt(cs, x) == {k \in 1..Len(cs) : IsSome(cs[k].target) /\ Unwrap(cs[k].target).branch = x}

\* The places of the commits with notes whose note names x.
PushedAt(cs, x) == {k \in 1..Len(cs) : HasPush(cs[k]) /\ PushOf(cs[k]).branch = x}

\* The loop that sets the branches is over.
Materialized == pc \in {"push", "pushed", "sync", "removed", "done"} /\ listed # <<>>

\* set_branch was called once for every commit that names a branch, with the
\* ids of these commits in the order of the list.
CalledForEach ==
    Materialized =>
        /\ Len(SetCalls) = Len(Noted)
        /\ \A k \in 1..Len(SetCalls) :
              SetCalls[k].branch = PushOf(Noted[k]).branch /\ SetCalls[k].a = Noted[k].id

\* The tip of every branch that several commits name is the id of the last
\* commit that names it.
TipIsLast ==
    Materialized =>
        \A k \in 1..Len(listed) : HasPush(listed[k]) =>
            With(PushOf(listed[k]).branch, LAMBDA x :
                Cardinality(NotedAt(x)) >= 2 =>
                    x \in DOMAIN heads /\ heads[x] = listed[Max(NotedAt(x))].id)

\* The tip of every branch that set_branch could set is the id of the last
\* commit for which it could.
TipIsLastSet ==
    Materialized =>
        \A k \in 1..Len(SetCalls) : SetCalls[k].b[2] =>
            With(SetCalls[k].branch, LAMBDA x :
                /\ x \in DOMAIN heads
                /\ heads[x] = SetCalls[Max({m \in 1..Len(SetCalls) :
                                   SetCalls[m].branch = x /\ SetCalls[m].b[2]})].a)

\* A state holds the parent (or "main") and the title of commit c.
HoldsEntry(state, x, parent_branch, title) ==
    /\ state.branch = x
    /\ state.target_branch = (IF IsSome(parent_branch) THEN Unwrap(parent_branch) ELSE S_main)
    /\ state.commit_title = Some(title)

\* The maps of the states hold, for every branch, the entry of the last
\* commit that names it: the map read from the notes before the edit, the
\* map read from the plan after it, by push.rs and by integration.rs alike.
StatesHoldLast ==
    /\ pc = "edit" =>
          /\ \A x \in DOMAIN before_state :
                With(list_commits[Max(PushedAt(list_commits, x))], LAMBDA c :
                    HoldsEntry(before_state[x], x, PushOf(c).parent_branch, c.title))
          /\ \A x \in DOMAIN before_state :
                With(list_commits[Max(PushedAt(list_commits, x))], LAMBDA c :
                    HoldsEntry(extract_branch_state(list_commits, Len(list_commits))[x],
                               x, PushOf(c).parent_branch, c.title))
    /\ pc = "parsed" =>
          With(Unwrap(after_commits), LAMBDA cs :
             /\ \A x \in DOMAIN after_state :
                   With(cs[Max(TargetedAt(cs, x))], LAMBDA c :
                       HoldsEntry(after_state[x], x, Unwrap(c.target).parent_branch, c.title))
             /\ \A x \in DOMAIN after_state :
                   With(cs[Max(TargetedAt(cs, x))], LAMBDA c :
                       HoldsEntry(extract_branch_state_from_parsed(cs, Len(cs))[x],
                                  x, Unwrap(c.target).parent_branch, c.title)))

\* C27 as stated: when several commits of a plan declare the same branch,
\* set_branch is called for each of them in plan order, after the loop the
\* tip of the branch is the id of the last such commit, and the maps of the
\* branch states hold the parent and the title of the last such commit.
C27_LastWins == CalledForEach /\ TipIsLast /\ StatesHoldLast

\* C27 amended: set_branch is called for each of them in plan order, after
\* the loop the tip of the branch is the id of the last such commit for which
\* set_branch succeeded, and the maps of the branch states hold the parent
\* and the title of the last such commit.
C27_LastSetWins == CalledForEach /\ TipIsLastSet /\ StatesHoldLast

\* Two commits declared branch a, both calls succeeded, and a stands at the
\* second commit.
C27_Witness ==
    /\ Materialized
    /\ Len(listed) = 2
    /\ NotedAt(S_a) = {1, 2}
    /\ Len(SetCalls) = 2 /\ SetCalls[1].b[2] /\ SetCalls[2].b[2]
    /\ heads[S_a] = listed[2].id
    /\ after_state[S_a].commit_title = Some(listed[2].title)

\* ------------------------------------------------------------------------
\* C28
\* ------------------------------------------------------------------------
\* The descriptions the states record for the commit of a new branch: the
\* description of the after-state, which a parsed plan never has, or the one
\* a branch of the before-state records for a commit of the same title; none
\* where the states keep no description.
DescriptionsOf(after_branch) ==
    IF "commit_description" \notin DOMAIN after_branch THEN {None}
    ELSE {after_branch.commit_description}
         \cup {before_state[x].commit_description :
                 x \in {y \in DOMAIN before_state :
                          before_state[y].commit_title = after_branch.commit_title}}

\* C28: the create call for a branch of the after-state that the
\* before-state does not have has the target_branch of the after-state as
\* its base, the commit title (the branch name when there is none) as its
\* title, and as its body the description of the commit, empty when there is
\* none, followed by the trailer of the tool.
C28_CreateArguments ==
    \A k \in 1..Len(calls) :
        (/\ calls[k].op = "create_pr"
         /\ calls[k].branch \in DOMAIN after_state \ DOMAIN before_state) =>
            With(after_state[calls[k].branch], LAMBDA after_branch :
                /\ calls[k].a = after_branch.target_branch
                /\ calls[k].b[1] = (IF IsSome(after_branch.commit_title)
                                    THEN Unwrap(after_branch.commit_title)
                                    ELSE after_branch.branch)
                /\ \E d \in DescriptionsOf(after_branch) :
                      calls[k].b[2] = (IF IsSome(d) THEN Unwrap(d) ELSE <<>>) \o Trailer)

\* ------------------------------------------------------------------------
\* C29
\* ------------------------------------------------------------------------
\* The map has one entry for every branch that a note of the commits names
\* and no other, and the entry of a branch has its name, the parent a commit
\* declares for it, or "main" where it declares none, and the origin that
\* commit declares.
DerivedFromNotes(states, cs) ==
    /\ DOMAIN states = {PushOf(cs[k]).branch : k \in {j \in 1..Len(cs) : HasPush(cs[j])}}
    /\ \A x \in DOMAIN states :
          \E k \in PushedAt(cs, x) :
              /\ states[x].branch = x
              /\ states[x].target_branch =
                    (IF IsSome(PushOf(cs[k]).parent_branch)
                     THEN Unwrap(PushOf(cs[k]).parent_branch) ELSE <<"m", "a", "i", "n">>)
              /\ states[x].origin = PushOf(cs[k]).origin

\* The same for the targets of parsed commits.
DerivedFromTargets(states, cs) ==
    /\ DOMAIN states = {Unwrap(cs[k].target).branch :
                          k \in {j \in 1..Len(cs) : IsSome(cs[j].target)}}
    /\ \A x \in DOMAIN states :
          \E k \in TargetedAt(cs, x) :
              /\ states[x].branch = x
              /\ states[x].target_branch =
                    (IF IsSome(Unwrap(cs[k].target).parent_branch)
                     THEN Unwrap(Unwrap(cs[k].target).parent_branch)
                     ELSE <<"m", "a", "i", "n">>)
              /\ states[x].origin = Unwrap(cs[k].target).origin

\* C29: extract_branch_state and extract_branch_state_from_parsed, of
\* commands/push.rs and of github/integration.rs, give one entry per distinct
\* declared branch, whose target_branch is the declared parent_branch, or
\* "main" when none is declared, and whose origin is the declared one;
\* commits without a push give no entry.
C29_BranchStateDerivation ==
    /\ pc = "edit" =>
          /\ DerivedFromNotes(before_state, list_commits)
          /\ DerivedFromNotes(extract_branch_state(list_commits, Len(list_commits)),
                              list_commits)
    /\ pc = "parsed" =>
          /\ DerivedFromTargets(after_state, Unwrap(after_commits))
          /\ DerivedFromTargets(
                extract_branch_state_from_parsed(Unwrap(after_commits),
                                                 Len(Unwrap(after_commits))),
                Unwrap(after_commits))

\* The plan was parsed in a run whose notes named a branch with an origin and
\* no parent, beside a commit without a note, and whose plan names a branch
\* with an origin beside a commit without a target.
C29_Witness ==
    /\ pc = "parsed"
    /\ Len(list_commits) = 2
    /\ ~HasPush(list_commits[1])
    /\ HasPush(list_commits[2]) /\ IsNone(PushOf(list_commits[2]).parent_branch)
    /\ before_state[S_b].target_branch = S_main
    /\ before_state[S_b].origin = Some(S_o)
    /\ IsNone(Unwrap(after_commits)[1].target)
    /\ DOMAIN after_state = {S_b}
    /\ after_state[S_b].origin = Some(S_o)
    /\ after_state[S_b].target_branch = S_main

\* ------------------------------------------------------------------------
\* C30
\* ------------------------------------------------------------------------
\* C30: whenever push_force is issued for a branch, the local tip of the
\* branch at that moment is the id of the last listed commit whose note
\* names the branch, also in runs where set_branch failed for the branch.
C30_PushedTipIsPlanned ==
    \A k \in 1..Len(calls) :
        calls[k].op = "push_force" =>
            calls[k].b = Some(listed[Max(NotedAt(calls[k].branch))].id)

\* ------------------------------------------------------------------------
\* C31
\* ------------------------------------------------------------------------
\* The plan file was read back as it was rendered, and it was parsed.
Unedited == edit = "kept" /\ pc \notin {"start", "edit", "parse", "failed"} /\ IsSome(after_commits)

\* C31: when the user saves the rendered plan unchanged, the state before
\* the edit and the state after it give every branch the same target_branch,
\* and the synchronizer calls no retarget, whatever the stored notes are,
\* notes without a parent_branch included.
C31_UneditedNoRetarget ==
    Unedited =>
        /\ DOMAIN before_state = DOMAIN after_state
        /\ \A x \in DOMAIN after_state :
              before_state[x].target_branch = after_state[x].target_branch
        /\ \A k \in 1..Len(calls) : calls[k].op # "update_pr_base"

\* ========================================================================
\* Two runs of Push::execute in a row
\* ========================================================================
\* A second run has begun.
Rerunning == \E k \in 1..Len(calls) : calls[k].op = "rerun"

\* Where the second run begins in the log of the calls.
RerunAt == CHOOSE k \in 1..Len(calls) : calls[k].op = "rerun"

\* push.rs 37: Push::execute is called again after a run that went through
\* its push phase with no refusal.  The repository, the remotes and the
\* review service are as the first run left them; what the process held is
\* gone.  The notes and the branches of that moment are kept in the log.
Rerun ==
    /\ pc = "done"
    /\ IsSome(after_commits)
    /\ ~Rerunning
    /\ \A k \in 1..Len(calls) : calls[k].op # "cannot_push"
    /\ pc' = "start"
    /\ plan' = <<>>
    /\ content' = <<>>
    /\ after_commits' = None
    /\ output' = <<>>
    /\ reparsed' = None
    /\ listed' = <<>>
    /\ idx' = 0
    /\ calls' = Append(calls, Call("rerun", None, notes, heads))
    /\ before_state' = <<>>
    /\ after_state' = <<>>
    /\ todo' = {}
    /\ edit' = "none"
    /\ result' = "none"
    /\ UNCHANGED <<main_branch, repoVars, synchronizer, gatewayVars, prs, no_pr>>

\* push.rs 49 in the second run: the user saves the plan file as it is.
EditFileAgain ==
    /\ EditFile
    /\ Rerunning => edit' = "kept"

NextRerun ==
    \/ Snapshot
    \/ EditFileAgain
    \/ ParsePlan
    \/ SaveNotes
    \/ ListCommits
    \/ DagStep
    \/ PushStep
    \/ SkipReview
    \/ HandleGithubIntegrationStart
    \/ HandleGithubIntegrationStep
    \/ HandleGithubIntegrationRemoved
    \/ Rerun

SpecRerun == Init /\ [][NextRerun]_vars

\* ------------------------------------------------------------------------
\* C32
\* ------------------------------------------------------------------------
\* C32: a run with an unedited plan that follows a run which went through
\* its push phase with no refusal, the remotes being as that run left them,
\* leaves every note and, once its branches are set, every branch tip as
\* they were, and issues no push_force: every noted branch is reported up to
\* date.
C32_RerunConverges ==
    Rerunning =>
        /\ notes = calls[RerunAt].a
        /\ Materialized /\ pc # "push" => heads = calls[RerunAt].b
        /\ \A k \in (RerunAt + 1)..Len(calls) :
              calls[k].op \notin {"push_force", "cannot_push"}
        /\ Materialized /\ pc # "push" =>
              Cardinality({k \in (RerunAt + 1)..Len(calls) : calls[k].op = "up_to_date"})
                  = Len(Noted)

\* ------------------------------------------------------------------------
\* C33
\* ------------------------------------------------------------------------
\* C33: in a run without --no-pr, create or retarget is issued for a branch
\* only if the push phase of the run reached that branch without aborting:
\* the branch was pushed or found up to date before the review call.
C33_ReviewOnlyForPushed ==
    ~no_pr =>
        \A k \in 1..Len(calls) :
            calls[k].op \in {"create_pr", "update_pr_base"} =>
                \E j \in 1..(k - 1) :
                    /\ calls[j].op \in {"push_force", "up_to_date"}
                    /\ calls[j].branch = calls[k].branch

\* ------------------------------------------------------------------------
\* C34
\* ------------------------------------------------------------------------
\* The plan the user wrote has no header for commit k, the plan was parsed,
\* and the commit has a stored note that names a branch.
Dropped(k) ==
    /\ edit = "plan"
    /\ IsSome(after_commits)
    /\ k \in 1..Len(plan)
    /\ plan[k].hdr \notin ValidHeaderKinds
    /\ HasPush(list_commits[k])

\* The loop that pushes is over.
PushPhaseOver == pc \in {"pushed", "sync", "removed", "done"} /\ listed # <<>>

\* What holds of a dropped commit k in every state of the run.
DroppedStaysLive(k) ==
    With(PushOf(list_commits[k]).branch, LAMBDA x :
        /\ \A j \in 1..Len(calls) :
              calls[j].op \in {"set_note", "delete_note"} => calls[j].a # log[k].id
        /\ Materialized =>
              \E j \in 1..Len(calls) :
                  /\ calls[j].op = "set_branch"
                  /\ calls[j].branch = x
                  /\ calls[j].a = log[k].id
        /\ PushPhaseOver =>
              \/ \E j \in 1..Len(calls) :
                    /\ calls[j].op \in {"push_force", "up_to_date", "cannot_push"}
                    /\ calls[j].branch = x
              \/ \E j \in 1..Len(calls) : calls[j].op = "cannot_push"
        /\ (\A j \in 1..Len(Unwrap(after_commits)) :
               IsSome(Unwrap(after_commits)[j].target)
                   => Unwrap(Unwrap(after_commits)[j].target).branch # x)
              => (pc # "parse" => x \notin DOMAIN after_state))

Orders(S) ==
    {f \in [1..Cardinality(S) -> S] : \A i, j \in 1..Cardinality(S) : f[i] = f[j] => i = j}

\* integration.rs 33-55 for the branches of `order`, one after the other: an
\* Err of a turn is returned at once (the `?` of integration.rs 38, 46, 49,
\* 51), else the loop goes on with what the turn left.
RECURSIVE handle_integration_loop(_, _, _)
handle_integration_loop(order, made, reviews) ==
    IF order = <<>> THEN {Outcome("Ok", made, reviews)}
    ELSE UNION {IF o.result = "Err"
                THEN {Outcome("Err", made \o o.calls, o.prs)}
                ELSE handle_integration_loop(Tail(order), made \o o.calls, o.prs) :
                  o \in HandleBranch(Head(order), before_state, after_state, reviews)}

\* integration.rs 17-65 when the after-state is walked in `order`: the
\* outcomes it may have.
handle_integration(order) ==
    IF ~available
    THEN {Outcome("Ok", <<Call("is_available", None, None, FALSE)>>, prs)}
    ELSE handle_integration_loop(order, <<Call("is_available", None, None, TRUE)>>, prs)

\* push.rs 162-185 for the branches of `order`, one after the other.
RECURSIVE handle_github_integration_loop(_, _, _)
handle_github_integration_loop(order, made, reviews) ==
    IF order = <<>> THEN Outcome("Ok", made, reviews)
    ELSE With(push_HandleBranch(Head(order), before_state, after_state, reviews), LAMBDA o :
            IF o.result = "Err"
            THEN Outcome("Err", made \o o.calls, o.prs)
            ELSE handle_github_integration_loop(Tail(order), made \o o.calls, o.prs))

\* push.rs 147-195 when the after-state is walked in `order`.
handle_github_integration(order) ==
    IF ~available
    THEN Outcome("Ok", <<Call("is_available", None, None, FALSE)>>, prs)
    ELSE handle_github_integration_loop(order, <<Call("is_available", None, None, TRUE)>>,
                                        prs)

\* What is compared of an outcome: the result, and the create and retarget
\* calls as (operation, branch, base).
ReviewSummary(o) ==
    [result |-> o.result,
     calls |-> {<<o.calls[k].op, o.calls[k].branch, o.calls[k].a>> :
                  k \in {j \in 1..Len(o.calls) :
                           o.calls[j].op \in {"create_pr", "update_pr_base"}}}]

\* The synchronizer has not begun.
BeforeSync == calls = <<>> /\ pc \in {"handle_integration", "pushed"}

\* ------------------------------------------------------------------------
\* C35
\* ------------------------------------------------------------------------
\* C35: for a before-state, an after-state and a behaviour of the gateway,
\* the create and retarget calls of the synchronizer and its result are the
\* same in whatever order the after-state is walked, also when the gateway
\* fails for some branch.
C35_OrderIndependent ==
    BeforeSync =>
        \A o1, o2 \in Orders(DOMAIN after_state) :
            IF synchronizer = "integration"
            THEN {ReviewSummary(o) : o \in handle_integration(o1)}
                 = {ReviewSummary(o) : o \in handle_integration(o2)}
            ELSE ReviewSummary(handle_github_integration(o1))
                 = ReviewSummary(handle_github_integration(o2))

\* ------------------------------------------------------------------------
\* C36
\* ------------------------------------------------------------------------
\* C36: on the same before-state and after-state, walked in the same order,
\* and with the same answers of the gateway, handle_github_integration of
\* commands/push.rs and GitHubIntegration::handle_integration issue the same
\* create and retarget calls, compared as (operation, branch, base), and
\* return the same result.
C36_SynchronizersAgree ==
    (BeforeSync /\ synchronizer = "integration") =>
        \A order \in Orders(DOMAIN after_state) :
            {ReviewSummary(o) : o \in handle_integration(order)}
                = {ReviewSummary(handle_github_integration(order))}

====
